---- MODULE Spec2Model ----
(***************************************************************************)
(* Model of singlet/dataset/plot.py: the colour / size encoding performed  *)
(* by Plot.scatter_reduced and Plot.dot_plot on a tabular dataset and a    *)
(* caller-supplied matplotlib axes, with the other operations of Plot;     *)
(* and of test/test_counts_table.py, the driver of the counts-table test   *)
(* scripts (variable driver).                                              *)
(*                                                                         *)
(* Numbers are numpy floats: a finite rational n/d (d > 0, lowest terms),  *)
(* NaN, or an infinity.  Colours are records [src, ix, alpha]: a named     *)
(* colour has ix = -1, entry ix of a colormap's lookup table has ix >= 0,  *)
(* the colormap's "bad" colour has ix = -2; alpha is in tenths.            *)
(***************************************************************************)
EXTENDS Integers, Sequences, FiniteSets, TLC

VARIABLES dataset, ax, call, ncalls, driver

vars == <<dataset, ax, call, ncalls, driver>>

-----------------------------------------------------------------------------
(* Bounds of the model *)

\* number of samples (rows of the samplesheet, columns of the counts)
NumSamples == 3
\* largest phenotype / count value in the dataset
MaxVal == 2
\* plot calls made on the axes handle
MaxCalls == 2

-----------------------------------------------------------------------------
(* numpy floats *)

Abs(x) == IF x < 0 THEN -x ELSE x

Sgn(x) == IF x < 0 THEN -1 ELSE IF x > 0 THEN 1 ELSE 0

RECURSIVE Gcd(_, _)
Gcd(a, b) == IF b = 0 THEN a ELSE Gcd(b, a % b)

Fin(n, d) ==
    LET g == Gcd(Abs(n), d)
    IN  [k |-> "fin", n |-> n \div g, d |-> d \div g]

NaN == [k |-> "nan", n |-> 0, d |-> 1]

Inf(s) == [k |-> "inf", n |-> s, d |-> 1]

IsNaN(a) == a.k = "nan"

IsFin(a) == a.k = "fin"

FNeg(a) == IF a.k = "nan" THEN a ELSE [a EXCEPT !.n = -a.n]

FAdd(a, b) ==
    IF a.k = "nan" \/ b.k = "nan" THEN NaN
    ELSE IF a.k = "inf" THEN (IF b.k = "inf" /\ b.n # a.n THEN NaN ELSE a)
    ELSE IF b.k = "inf" THEN b
    ELSE Fin(a.n * b.d + b.n * a.d, a.d * b.d)

FSub(a, b) == FAdd(a, FNeg(b))

FMul(a, b) ==
    IF a.k = "nan" \/ b.k = "nan" THEN NaN
    ELSE IF a.k = "inf" \/ b.k = "inf"
         THEN (IF a.n = 0 \/ b.n = 0 THEN NaN ELSE Inf(Sgn(a.n) * Sgn(b.n)))
    ELSE Fin(a.n * b.n, a.d * b.d)

\* IEEE division as numpy performs it: x/0 is an infinity, 0/0 is NaN, and
\* no exception is raised (only a RuntimeWarning)
FDiv(a, b) ==
    IF a.k = "nan" \/ b.k = "nan" THEN NaN
    ELSE IF a.k = "inf"
         THEN (IF b.k = "inf" THEN NaN
               ELSE Inf(a.n * (IF b.n < 0 THEN -1 ELSE 1)))
    ELSE IF b.k = "inf" THEN Fin(0, 1)
    ELSE IF b.n = 0
         THEN (IF a.n = 0 THEN NaN ELSE Inf(Sgn(a.n)))
    ELSE Fin(Sgn(b.n) * a.n * b.d, Abs(b.n) * a.d)

\* a < b ; every comparison with NaN is false
FLt(a, b) ==
    IF a.k = "nan" \/ b.k = "nan" THEN FALSE
    ELSE IF a.k = "inf" THEN a.n < 0 /\ ~(b.k = "inf" /\ b.n < 0)
    ELSE IF b.k = "inf" THEN b.n > 0
    ELSE a.n * b.d < b.n * a.d

\* a == b as floats: NaN differs from everything, itself included
FEq(a, b) == a.k # "nan" /\ b.k # "nan" /\ a = b

FLe(a, b) == FLt(a, b) \/ FEq(a, b)

\* floor(1000 * log10(x / 10)) for x = 1 .. 64
Log10Table ==
    << -1000, -699, -523, -398, -302, -222, -155, -97,
       -46, 0, 41, 79, 113, 146, 176, 204,
       230, 255, 278, 301, 322, 342, 361, 380,
       397, 414, 431, 447, 462, 477, 491, 505,
       518, 531, 544, 556, 568, 579, 591, 602,
       612, 623, 633, 643, 653, 662, 672, 681,
       690, 698, 707, 716, 724, 732, 740, 748,
       755, 763, 770, 778, 785, 792, 799, 806 >>

\* np.log10 to three decimals; its argument is a multiple of 0.1.
\* log10(0) is -inf and log10 of a negative number is NaN (a warning only).
Log10(a) ==
    IF a.k = "nan" THEN NaN
    ELSE IF a.k = "inf" THEN (IF a.n > 0 THEN a ELSE NaN)
    ELSE IF a.n < 0 THEN NaN
    ELSE IF a.n = 0 THEN Inf(-1)
    ELSE Fin(Log10Table[(a.n * 10) \div a.d], 1000)

-----------------------------------------------------------------------------
(* sequences *)

Range(s) == {s[i] : i \in 1..Len(s)}


\* list.index(x): 0-based position of the first occurrence
ListIndex(s, x) == (CHOOSE i \in 1..Len(s) : s[i] = x /\ \A j \in 1..(i-1) : s[j] # x) - 1

\* the rows of s selected by a boolean mask, in order
RECURSIVE Masked(_, _)
Masked(s, mask) ==
    IF s = <<>> THEN <<>>
    ELSE (IF Head(mask) THEN <<Head(s)>> ELSE <<>>) \o Masked(Tail(s), Tail(mask))

\* ndarray.min() / .max() of a non-empty array; NaN propagates
RECURSIVE ArrMin(_)
ArrMin(s) ==
    IF Len(s) = 1 THEN s[1]
    ELSE LET m == ArrMin(Tail(s))
         IN  IF IsNaN(s[1]) \/ IsNaN(m) THEN NaN
             ELSE IF FLt(m, s[1]) THEN m ELSE s[1]

RECURSIVE ArrMax(_)
ArrMax(s) ==
    IF Len(s) = 1 THEN s[1]
    ELSE LET m == ArrMax(Tail(s))
         IN  IF IsNaN(s[1]) \/ IsNaN(m) THEN NaN
             ELSE IF FLt(s[1], m) THEN m ELSE s[1]

\* np.sort of an array of floats: ascending, NaN last
RECURSIVE Insert(_, _)
Insert(x, s) ==
    IF s = <<>> THEN <<x>>
    ELSE IF IsNaN(x) THEN s \o <<x>>
    ELSE IF IsNaN(Head(s)) \/ FLe(x, Head(s)) THEN <<x>> \o s
    ELSE <<Head(s)>> \o Insert(x, Tail(s))

RECURSIVE ArrSort(_)
ArrSort(s) == IF s = <<>> THEN <<>> ELSE Insert(Head(s), ArrSort(Tail(s)))

\* np.unique of an array of floats: sorted, duplicates removed
RECURSIVE Dedup(_)
Dedup(s) ==
    IF Len(s) <= 1 THEN s
    ELSE IF s[1] = s[2] THEN Dedup(Tail(s))
    ELSE <<s[1]>> \o Dedup(Tail(s))

ArrUnique(s) == Dedup(ArrSort(s))

-----------------------------------------------------------------------------
(* the dataset: samplesheet columns ct, ct2 (labels) and ph (numeric, may   *)
(* hold NaN), one feature g of the counts table                             *)

\* a table a call works on is one of the dataset (its counts, its
\* samplesheet) or one of the call's own
LocalTable == "local"

\* table[label] = ... or table.loc[label] = ...: the dataset after the
\* assignment, which reaches the dataset only through one of its own tables
Assign(ds, table, label) ==
    CASE table = "counts"      -> [ds EXCEPT !.counts_index = @ \cup {label}]
      [] table = "samplesheet" -> [ds EXCEPT !.samplesheet_columns = @ \cup {label}]
      [] OTHER                 -> ds

\* the assignments of a sequence of labels, one after the other
RECURSIVE AssignAll(_, _, _)
AssignAll(ds, table, labels) ==
    IF labels = <<>> THEN ds
    ELSE AssignAll(Assign(ds, table, Head(labels)), table, Tail(labels))

\* the labels in their natural (lexicographic) order
LabelOrder == <<"a", "b", "c">>

Labels == Range(LabelOrder)

Samples == 1..NumSamples

\* columns of dataset.samplesheet
MetadataColumns == {"ct", "ct2", "ph"}

\* index of dataset.counts: the names of the mapped features
DataIndex == {"g"}

\* hasattr(color_data, 'cat') or not np.issubdtype(dtype, np.number)
IsCategorical(color_by) == color_by \in {"ct", "ct2"}

\* dataset.counts.pseudocount
CountsPseudocount == Fin(1, 10)

\* metadata.loc[:, color_by] / data.loc[color_by]
ColumnOf(ds, name) ==
    CASE name = "ct"  -> ds.ct
      [] name = "ct2" -> ds.ct2
      [] name = "ph"  -> ds.ph
      [] name = "g"   -> ds.g

-----------------------------------------------------------------------------
(* colours and colormaps *)

\* size of a matplotlib colormap's lookup table
CmapN == 256

NamedColor(name) == [src |-> name, ix |-> -1, alpha |-> 10]

\* mpl.colors.to_rgba(color, alpha=0.3)
ToRgbaAlpha03(name) == [src |-> name, ix |-> -1, alpha |-> 3]

\* cmap(x) of a matplotlib colormap: x is scaled to the lookup table, values
\* below 0 take the first entry, values >= 1 the last, NaN the "bad" colour
CmapCall(name, x) ==
    IF x.k = "nan" THEN [src |-> name, ix |-> -2, alpha |-> 0]
    ELSE IF x.k = "inf"
         THEN [src |-> name, ix |-> (IF x.n < 0 THEN 0 ELSE CmapN - 1), alpha |-> 10]
    ELSE IF x.n < 0 THEN [src |-> name, ix |-> 0, alpha |-> 10]
    ELSE IF x.n >= x.d THEN [src |-> name, ix |-> CmapN - 1, alpha |-> 10]
    ELSE [src |-> name, ix |-> (x.n * CmapN) \div x.d, alpha |-> 10]

\* np.linspace(0, 1, n)
Linspace01(n) == [k \in 1..n |-> IF n = 1 THEN Fin(0, 1) ELSE Fin(k - 1, n - 1)]

\* palette arguments: a colormap (by name or object), a dict label -> colour,
\* a list of colours
PalName(name) == [kind |-> "callable", name |-> name, map |-> [l \in {} |-> ""], list |-> <<>>]

PalDict(map) == [kind |-> "dict", name |-> "", map |-> map, list |-> <<>>]

PalList(list) == [kind |-> "list", name |-> "", map |-> [l \in {} |-> ""], list |-> list]

-----------------------------------------------------------------------------
(* scatter_reduced: categorical colouring *)

\* the distinct labels in the order of their first occurrence
CdUniqueFirstSeen(values) ==
    LET firsts == {i \in 1..Len(values) : \A j \in 1..(i - 1) : values[j] # values[i]}
    IN  [k \in 1..Cardinality(firsts) |->
            values[CHOOSE i \in firsts : Cardinality({j \in firsts : j < i}) = k - 1]]

\* list(np.unique(color_data.values)): the distinct labels, sorted
CdUnique(values) == SelectSeq(LabelOrder, LAMBDA l : l \in Range(values))

\* mutant of CUnique: cmap.get(x) without the default colour
CUniqueNoDefault(cmap, cd_unique, default_color) ==
    CASE cmap.kind = "callable" ->
            LET xs == Linspace01(Len(cd_unique))
            IN  [k \in 1..Len(cd_unique) |-> CmapCall(cmap.name, xs[k])]
      [] cmap.kind = "dict" ->
            [k \in 1..Len(cd_unique) |->
                NamedColor(IF cd_unique[k] \in DOMAIN cmap.map
                           THEN cmap.map[cd_unique[k]]
                           ELSE "None")]
      [] OTHER ->
            [k \in 1..Len(cmap.list) |-> NamedColor(cmap.list[k])]

\* the colours of the distinct labels, by palette form
CUnique(cmap, cd_unique, default_color) ==
    CASE cmap.kind = "callable" ->
            LET xs == Linspace01(Len(cd_unique))
            IN  [k \in 1..Len(cd_unique) |-> CmapCall(cmap.name, xs[k])]
      [] cmap.kind = "dict" ->
            [k \in 1..Len(cd_unique) |->
                NamedColor(IF cd_unique[k] \in DOMAIN cmap.map
                           THEN cmap.map[cd_unique[k]]
                           ELSE default_color)]
      [] OTHER ->
            [k \in 1..Len(cmap.list) |-> NamedColor(cmap.list[k])]

\* c_unique[[cd_unique.index(x) for x in values]] raises IndexError when an
\* index is out of bounds for c_unique
RowIndexError(c_unique, cd_unique, values) ==
    \E i \in 1..Len(values) : ListIndex(cd_unique, values[i]) >= Len(c_unique)

\* mutant of RowColors: every row takes the colour of the first label
RowColorsFirst(c_unique, cd_unique, values) ==
    [i \in 1..Len(values) |-> c_unique[1]]

RowColors(c_unique, cd_unique, values) ==
    [i \in 1..Len(values) |-> c_unique[ListIndex(cd_unique, values[i]) + 1]]

\* mutant of CmapUpdate: the mapping is replaced, not updated
CmapReplace(old, cd_unique, c_unique) ==
    LET n    == IF Len(cd_unique) < Len(c_unique) THEN Len(cd_unique) ELSE Len(c_unique)
        keys == {cd_unique[k] : k \in 1..n}
    IN  [l \in keys |-> c_unique[ListIndex(cd_unique, l) + 1]]

\* ax._singlet_cmap.update(dict(zip(cd_unique, c_unique)))
CmapUpdate(old, cd_unique, c_unique) ==
    LET n    == IF Len(cd_unique) < Len(c_unique) THEN Len(cd_unique) ELSE Len(c_unique)
        keys == {cd_unique[k] : k \in 1..n}
    IN  [l \in (DOMAIN old) \cup keys |->
            IF l \in keys THEN c_unique[ListIndex(cd_unique, l) + 1] ELSE old[l]]

-----------------------------------------------------------------------------
(* scatter_reduced: numeric colouring *)

\* ~np.isnan(values), or all ones when no value is NaN
Unmask(values) == [i \in 1..Len(values) |-> ~IsNaN(values[i])]

\* mutant of CdMin: the minimum is taken over the NaN rows too
CdMinAll(values, unmask) == ArrMin(values)

\* color_data.values[unmask].min() / .max()
CdMin(values, unmask) == ArrMin(Masked(values, unmask))

CdMax(values, unmask) == ArrMax(Masked(values, unmask))

\* color_log: "None", "True" or "False"
ScatterColorLog(color_log, color_by_phenotype) ==
    IF color_log = "None" THEN ~color_by_phenotype ELSE color_log = "True"

\* pc = 0.1 * cd_min for a phenotype, the counts' pseudocount for a feature
ScatterPseudocount(color_by_phenotype, cd_min) ==
    IF color_by_phenotype THEN FMul(Fin(1, 10), cd_min) ELSE CountsPseudocount

LogTransform(values, pc) == [i \in 1..Len(values) |-> Log10(FAdd(values[i], pc))]

\* (color_data.values - cd_min) / (cd_max - cd_min)
CdNorm(values, cd_min, cd_max) ==
    [i \in 1..Len(values) |-> FDiv(FSub(values[i], cd_min), FSub(cd_max, cd_min))]

\* the colour array: colormap for the unmasked rows, translucent default
\* colour for the NaN rows
NumericColors(cmap, cd_norm, unmask, default_color) ==
    [i \in 1..Len(cd_norm) |->
        IF unmask[i] THEN CmapCall(cmap.name, cd_norm[i])
        ELSE ToRgbaAlpha03(default_color)]

-----------------------------------------------------------------------------
(* scatter_reduced: tiers (high_on_top) and the drawing loop *)

\* the quantile of the sorted array xs at k/4, by linear interpolation
Quantile4(xs, k) ==
    LET pos == (Len(xs) - 1) * k
        f   == pos \div 4
        r   == pos % 4
    IN  IF r = 0 THEN xs[f + 1]
        ELSE FAdd(xs[f + 1], FMul(Fin(r, 4), FSub(xs[f + 2], xs[f + 1])))

\* quantile binning with intervals closed on the left
QCutLeftClosed(x) ==
    LET xs   == ArrSort(Masked(x, Unmask(x)))
        bins == IF xs = <<>> THEN <<>>
                ELSE Dedup([k \in 1..5 |-> Quantile4(xs, k - 1)])
        ids(v) == IF FEq(v, bins[Len(bins)]) THEN Len(bins) - 1
                  ELSE Cardinality({j \in 1..Len(bins) : FLe(bins[j], v)})
    IN  [i \in 1..Len(x) |->
            IF IsNaN(x[i]) \/ bins = <<>> THEN NaN
            ELSE IF ids(x[i]) = 0 \/ ids(x[i]) = Len(bins) THEN NaN
            ELSE Fin(ids(x[i]) - 1, 1)]

\* pd.qcut(x, np.linspace(0, 1, 5), labels=False, duplicates='drop'):
\* quantile edges of the non-NaN values, duplicate edges dropped, intervals
\* closed on the right with the lowest value included in the first; a NaN
\* value, or one that falls in no interval, has tier NaN
QCut(x) ==
    LET xs   == ArrSort(Masked(x, Unmask(x)))
        bins == IF xs = <<>> THEN <<>>
                ELSE Dedup([k \in 1..5 |-> Quantile4(xs, k - 1)])
        ids(v) == IF FEq(v, bins[1]) THEN 1
                  ELSE Cardinality({j \in 1..Len(bins) : FLt(bins[j], v)})
    IN  [i \in 1..Len(x) |->
            IF IsNaN(x[i]) \/ bins = <<>> THEN NaN
            ELSE IF ids(x[i]) = 0 \/ ids(x[i]) = Len(bins) THEN NaN
            ELSE Fin(ids(x[i]) - 1, 1)]

\* np.ones(vectors_reduced.shape[0])
OnesTiers == [i \in Samples |-> Fin(1, 1)]

\* default of kwargs['s']
DefaultSize == 90

\* ind = tiers == t, as the list of selected rows
TierRows(tiers, t) == SelectSeq([i \in 1..Len(tiers) |-> i], LAMBDA i : FEq(tiers[i], t))

\* kw['c'] of one batch: the colour array is subset to the batch only when
\* its length equals the length of the batch
BatchColors(c, rows) ==
    IF Len(c) = Len(rows) THEN [j \in 1..Len(rows) |-> c[rows[j]]] ELSE c

\* matplotlib accepts a colour array for M points when it holds M colours
\* or a single one, and raises ValueError otherwise
ScatterAccepts(colors, rows) == Len(colors) = Len(rows) \/ Len(colors) = 1

\* one vec.plot(kind='scatter', ax=ax, **kw) call
Batch(rows, colors) ==
    [rows |-> rows,
     c    |-> [j \in 1..Len(rows) |-> IF Len(colors) = 1 THEN colors[1] ELSE colors[j]],
     s    |-> DefaultSize]

\* the loop over np.sort(np.unique(tiers)); has_c tells whether kwargs holds
\* 'c' (colour array c) or 'color' (the single default colour c[1])
RECURSIVE DrawTiers(_, _, _, _, _)
DrawTiers(ts, tiers, c, has_c, drawn) ==
    IF ts = <<>> THEN [status |-> "ok", batches |-> drawn]
    ELSE LET rows   == TierRows(tiers, Head(ts))
             colors == IF has_c THEN BatchColors(c, rows) ELSE c
         IN  IF ~ScatterAccepts(colors, rows)
             THEN [status |-> "ValueError", batches |-> drawn]
             ELSE DrawTiers(Tail(ts), tiers, c, has_c, Append(drawn, Batch(rows, colors)))

-----------------------------------------------------------------------------
(* scatter_reduced *)

\* the locals of a call that raised before colouring; `returns` is what the
\* return statement gives once the call gets there: the axes it drew on
ScatterBase(args) ==
    [op |-> "scatter_reduced", status |-> "ok", args |-> args, kind |-> "none",
     values |-> <<>>, cd_unique |-> <<>>, c_unique |-> <<>>, c |-> <<>>,
     unmask |-> <<>>, cd_min |-> NaN, cd_max |-> NaN, log |-> FALSE, pc |-> NaN,
     cd_norm |-> <<>>, tiers |-> <<>>, batches |-> <<>>, returns |-> "ax"]

\* the drawing loop and the return, given the locals computed so far
ScatterDraw(a, r, has_c) ==
    LET d == DrawTiers(ArrUnique(r.tiers), r.tiers, r.c, has_c, <<>>)
    IN  [ax   |-> [a EXCEPT !.draws = a.draws + Len(d.batches)],
         call |-> [r EXCEPT !.status = d.status, !.batches = d.batches]]

ScatterCategorical(ds, a, args) ==
    LET values    == ColumnOf(ds, args.color_by)
        cd_unique == CdUnique(values)
        c_unique  == CUnique(args.cmap, cd_unique, args.default_color)
        r0        == [ScatterBase(args) EXCEPT !.kind = "categorical",
                        !.values = values, !.cd_unique = cd_unique,
                        !.c_unique = c_unique, !.tiers = OnesTiers]
    IN  IF RowIndexError(c_unique, cd_unique, values)
        THEN [ax |-> a, call |-> [r0 EXCEPT !.status = "IndexError"]]
        ELSE ScatterDraw(
                [a EXCEPT !.has_cmap = TRUE,
                          !.singlet_cmap = CmapUpdate(a.singlet_cmap, cd_unique, c_unique)],
                [r0 EXCEPT !.c = RowColors(c_unique, cd_unique, values)],
                TRUE)

ScatterNumeric(ds, a, args) ==
    LET values   == ColumnOf(ds, args.color_by)
        pheno    == args.color_by \in MetadataColumns
        unmask   == Unmask(values)
        min0     == CdMin(values, unmask)
        max0     == CdMax(values, unmask)
        log      == ScatterColorLog(args.color_log, pheno)
        pc       == ScatterPseudocount(pheno, min0)
        data     == IF log THEN LogTransform(values, pc) ELSE values
        cd_min   == IF log THEN Log10(FAdd(min0, pc)) ELSE min0
        cd_max   == IF log THEN Log10(FAdd(max0, pc)) ELSE max0
        cd_norm  == CdNorm(data, cd_min, cd_max)
        r0       == [ScatterBase(args) EXCEPT !.kind = "numeric", !.values = values,
                        !.unmask = unmask]
    IN  IF Masked(values, unmask) = <<>>
        THEN \* min() of a zero-size array
             [ax |-> a, call |-> [r0 EXCEPT !.status = "ValueError"]]
        ELSE ScatterDraw(a,
                [r0 EXCEPT !.cd_min = cd_min, !.cd_max = cd_max, !.log = log,
                           !.pc = IF log THEN pc ELSE NaN,
                           !.cd_norm = cd_norm,
                           !.tiers = IF args.high_on_top THEN QCut(cd_norm) ELSE OnesTiers,
                           !.c = NumericColors(args.cmap, cd_norm, unmask, args.default_color)],
                TRUE)

\* Plot.scatter_reduced(vectors_reduced, color_by, color_log, cmap,
\* default_color, ax, high_on_top) with vectors_reduced indexed by the samples
ScatterReducedCall(ds, a, args) ==
    IF args.color_by = "None"
    THEN ScatterDraw(a,
            [ScatterBase(args) EXCEPT !.tiers = OnesTiers,
                                      !.c = <<NamedColor(args.default_color)>>],
            FALSE)
    ELSE IF args.color_by \notin MetadataColumns \cup DataIndex
    THEN [ax |-> a, call |-> [ScatterBase(args) EXCEPT !.status = "ValueError"]]
    ELSE IF IsCategorical(args.color_by)
    THEN ScatterCategorical(ds, a, args)
    ELSE ScatterNumeric(ds, a, args)

ScatterArgs(color_by, color_log, cmap, default_color, high_on_top) ==
    [color_by |-> color_by, color_log |-> color_log, cmap |-> cmap,
     default_color |-> default_color, high_on_top |-> high_on_top]

ScatterReduced(color_by, color_log, cmap, default_color, high_on_top) ==
    /\ ncalls < MaxCalls
    /\ \E r \in {ScatterReducedCall(dataset, ax,
                    ScatterArgs(color_by, color_log, cmap, default_color, high_on_top))} :
           /\ ax' = r.ax
           /\ call' = r.call
    /\ ncalls' = ncalls + 1
    /\ UNCHANGED <<dataset, driver>>

-----------------------------------------------------------------------------
(* dot_plot *)

\* a size that grows linearly with the fraction
SizeFunLinear(min_size, fraction) ==
    FAdd(Fin(min_size, 1), FMul(fraction, Fin(11, 1)))

\* size_fun(fraction) = min_size + (fraction * 11)**2
SizeFun(min_size, fraction) ==
    FAdd(Fin(min_size, 1), FMul(FMul(fraction, Fin(11, 1)), FMul(fraction, Fin(11, 1))))

\* the column of `data` for an item of plot_list: a feature of the counts
\* (NaN filled with 0) or a column of the samplesheet
ItemValues(ds, item) ==
    IF item \in DataIndex
    THEN [i \in Samples |-> IF IsNaN(ColumnOf(ds, item)[i]) THEN Fin(0, 1)
                            ELSE ColumnOf(ds, item)[i]]
    ELSE ColumnOf(ds, item)

\* gby.get_group(ct): the rows of the group
GroupRows(ds, group_by, ct) ==
    SelectSeq([i \in Samples |-> i], LAMBDA i : ColumnOf(ds, group_by)[i] = ct)

RECURSIVE ArrSum(_)
ArrSum(s) == IF s = <<>> THEN Fin(0, 1) ELSE FAdd(Head(s), ArrSum(Tail(s)))

\* ndarray.mean()
ArrMean(s) == FDiv(ArrSum(s), Fin(Len(s), 1))

\* the fraction of the values strictly above the threshold
FracExpStrict(vals, threshold) ==
    Fin(Cardinality({j \in 1..Len(vals) : FLt(Fin(threshold, 1), vals[j])}), Len(vals))

\* (dfi[count] >= threshold).mean()
FracExp(vals, threshold) ==
    Fin(Cardinality({j \in 1..Len(vals) : FLe(Fin(threshold, 1), vals[j])}), Len(vals))

\* mutant of DotColorLog: the default logs the phenotypes too
DotColorLogAll(color_log, item) == color_log # "False"

\* clog = color_log or ((color_log is None) and (count in plot_listc))
DotColorLog(color_log, item) ==
    color_log = "True" \/ (color_log = "None" /\ item \in DataIndex)

\* mean_exp of one group
MeanExp(vals, clog) ==
    IF clog THEN ArrMean(LogTransform(vals, CountsPseudocount)) ELSE ArrMean(vals)

\* the point of item number ig (0-based) and group ct
DotPoint(ds, args, groups, ig, ct) ==
    LET item == args.plot_list[ig + 1]
        rows == GroupRows(ds, args.group_by, ct)
        vals == [j \in 1..Len(rows) |-> ItemValues(ds, item)[rows[j]]]
        clog == DotColorLog(args.color_log, item)
    IN  [count |-> item, group |-> ct, clog |-> clog,
         fraction |-> FracExp(vals, args.threshold),
         level |-> MeanExp(vals, clog),
         x |-> IF args.layout = "horizontal" THEN ig ELSE ListIndex(groups, ct),
         y |-> IF args.layout = "horizontal" THEN ListIndex(groups, ct) ELSE ig]

\* the groups of `groups` that occur in the data, in the order of `groups`
ExistingGroups(ds, group_by, groups) ==
    SelectSeq(groups, LAMBDA ct : ct \in Range(ColumnOf(ds, group_by)))

\* the list of points: for each item of plot_list, for each existing group
DotPoints(ds, args, groups) ==
    LET ex == ExistingGroups(ds, args.group_by, groups)
        n  == Len(ex)
    IN  [q \in 1..(Len(args.plot_list) * n) |->
            DotPoint(ds, args, groups, (q - 1) \div n, ex[((q - 1) % n) + 1])]

Levels(points) == [q \in 1..Len(points) |-> points[q].level]

LevelsOf(points, item) == Levels(SelectSeq(points, LAMBDA pt : pt.count = item))

\* mutant of DotVmin: 'min_single' is treated as 'min'
DotVminAcross(vmin, points, item) ==
    IF vmin.kind = "num" THEN vmin.v ELSE ArrMin(Levels(points))

\* vm for one item: vmin is [kind |-> "all" | "single" | "num", v |-> number]
DotVmin(vmin, points, item) ==
    CASE vmin.kind = "all"    -> ArrMin(Levels(points))
      [] vmin.kind = "single" -> ArrMin(LevelsOf(points, item))
      [] OTHER                -> vmin.v

DotVmax(vmax, points, item) ==
    CASE vmax.kind = "all"    -> ArrMax(Levels(points))
      [] vmax.kind = "single" -> ArrMax(LevelsOf(points, item))
      [] OTHER                -> vmax.v

\* shade = (level - vm) / (vM - vm)
Shade(level, vm, vM) == FDiv(FSub(level, vm), FSub(vM, vm))

\* the locals of a dot_plot call that raised before computing the points
DotBase(args, groups) ==
    [op |-> "dot_plot", status |-> "ok", args |-> args, groups |-> groups,
     points |-> <<>>, s |-> <<>>, vm |-> <<>>, vM |-> <<>>, shade |-> <<>>,
     c |-> <<>>, batches |-> <<>>, returns |-> "ax"]

\* Plot.dot_plot(group_axis='samples', group_by, group_order, plot_list,
\* color_log, vmin, vmax, threshold, min_size, layout, cmap, ax); `groups`
\* is the list of groups (group_order, or list(set(...)) in some order)
DotPlotCall(ds, a, args, groups) ==
    LET points == DotPoints(ds, args, groups)
        s      == [q \in 1..Len(points) |-> SizeFun(args.min_size, points[q].fraction)]
        vm     == [q \in 1..Len(points) |-> DotVmin(args.vmin, points, points[q].count)]
        vM     == [q \in 1..Len(points) |-> DotVmax(args.vmax, points, points[q].count)]
        shade  == [q \in 1..Len(points) |-> Shade(points[q].level, vm[q], vM[q])]
        c      == [q \in 1..Len(points) |-> CmapCall(args.cmap, shade[q])]
        r0     == DotBase(args, groups)
    IN  IF \E q \in 1..Len(args.plot_list) :
              args.plot_list[q] \notin DataIndex \cup MetadataColumns
        THEN [ax |-> a, call |-> [r0 EXCEPT !.status = "KeyError"]]
        ELSE IF ExistingGroups(ds, args.group_by, groups) = <<>>
        THEN \* no point: set_index on an empty frame
             [ax |-> a, call |-> [r0 EXCEPT !.status = "KeyError"]]
        ELSE IF args.layout \notin {"horizontal", "vertical"}
        THEN [ax |-> a, call |-> [r0 EXCEPT !.status = "ValueError"]]
        ELSE [ax   |-> [a EXCEPT !.draws = a.draws + 1,
                                 !.has_dotmap = TRUE,
                                 !.singlet_dotmap =
                                     IF a.has_dotmap THEN a.singlet_dotmap
                                     ELSE [min_size |-> args.min_size, cmap |-> args.cmap]],
              call |-> [r0 EXCEPT !.points = points, !.s = s, !.vm = vm, !.vM = vM,
                                  !.shade = shade, !.c = c,
                                  !.batches = <<[x |-> [q \in 1..Len(points) |-> points[q].x],
                                                 y |-> [q \in 1..Len(points) |-> points[q].y],
                                                 s |-> s, c |-> c]>>]]

\* the orders in which list(set(...)) may enumerate the distinct groups
SetOrders(S) ==
    {f \in [1..Cardinality(S) -> S] : \A i, j \in 1..Cardinality(S) : i # j => f[i] # f[j]}

\* groups: group_order when given, else list(set(data[group_by]))
DotGroups(ds, group_by, group_order) ==
    IF group_order.given THEN {group_order.order}
    ELSE SetOrders(Range(ColumnOf(ds, group_by)))

DotArgs(group_by, group_order, plot_list, color_log, vmin, vmax, threshold, min_size, layout, cmap) ==
    [group_by |-> group_by, group_order |-> group_order, plot_list |-> plot_list,
     color_log |-> color_log, vmin |-> vmin, vmax |-> vmax, threshold |-> threshold,
     min_size |-> min_size, layout |-> layout, cmap |-> cmap]

\* data = self.dataset.counts.loc[plot_listc].fillna(0).T: a table of the
\* call's own
DotData == LocalTable

\* the labels dot_plot assigns columns of `data` for: the items of
\* plot_list that are no feature, up to the first that is no column of the
\* samplesheet either (KeyError), then group_by
DotAssigned(group_by, plot_list) ==
    LET meta == SelectSeq(plot_list, LAMBDA p : p \notin DataIndex)
        bad  == {k \in 1..Len(meta) : meta[k] \notin MetadataColumns}
    IN  IF bad = {} THEN Append(meta, group_by)
        ELSE SubSeq(meta, 1, (CHOOSE k \in bad : \A j \in bad : k <= j) - 1)

\* the dataset after `data[count] = samplesheet[count]` for these items
\* and `data[group_by] = samplesheet[group_by]`
DotDataset(ds, group_by, plot_list) ==
    AssignAll(ds, DotData, DotAssigned(group_by, plot_list))

DotPlot(group_by, group_order, plot_list, color_log, vmin, vmax, threshold, min_size, layout, cmap) ==
    /\ ncalls < MaxCalls
    /\ \E groups \in DotGroups(dataset, group_by, group_order) :
          \E r \in {DotPlotCall(dataset, ax,
                       DotArgs(group_by, group_order, plot_list, color_log, vmin, vmax,
                               threshold, min_size, layout, cmap),
                       groups)} :
              /\ ax' = r.ax
              /\ call' = r.call
    /\ dataset' = DotDataset(dataset, group_by, plot_list)
    /\ ncalls' = ncalls + 1
    /\ UNCHANGED driver

-----------------------------------------------------------------------------
(* keyword arguments: _sanitize_plot_properties, _update_properties *)

\* the dict `aliases`, in its order: long name, short name
Aliases ==
    << <<"linewidth", "lw">>, <<"antialiased", "aa">>, <<"color", "c">>,
       <<"linestyle", "ls">>, <<"markeredgecolor", "mec">>,
       <<"markeredgewidth", "mew">>, <<"markerfacecolor", "mfc">>,
       <<"markerfacecoloralt", "mfcalt">>, <<"markersize", "ms">> >>

\* d[k] = v and d.pop(k), a dict being a function on its keys
DictSet(d, k, v) == [x \in (DOMAIN d) \cup {k} |-> IF x = k THEN v ELSE d[x]]

DictPop(d, k) == [x \in (DOMAIN d) \ {k} |-> d[x]]

\* a sanitizer that keeps the long-name entry when both names are given
RECURSIVE SanitizeKeepLong(_, _)
SanitizeKeepLong(kwargs, i) ==
    IF i > Len(Aliases) THEN kwargs
    ELSE LET key   == Aliases[i][1]
             alias == Aliases[i][2]
         IN  SanitizeKeepLong(
                 IF alias \in DOMAIN kwargs
                 THEN IF key \in DOMAIN kwargs THEN DictPop(kwargs, alias)
                      ELSE DictSet(DictPop(kwargs, alias), key, kwargs[alias])
                 ELSE kwargs,
                 i + 1)

\* the loop of _sanitize_plot_properties from the i-th alias on:
\* if alias in kwargs: kwargs[key] = kwargs.pop(alias)
RECURSIVE SanitizeFrom(_, _)
SanitizeFrom(kwargs, i) ==
    IF i > Len(Aliases) THEN kwargs
    ELSE LET key   == Aliases[i][1]
             alias == Aliases[i][2]
         IN  SanitizeFrom(
                 IF alias \in DOMAIN kwargs
                 THEN DictSet(DictPop(kwargs, alias), key, kwargs[alias])
                 ELSE kwargs,
                 i + 1)

\* Plot._sanitize_plot_properties(kwargs): the dict after the call
SanitizePlotProperties(kwargs) == SanitizeFrom(kwargs, 1)

\* Plot._update_properties(kwargs, defaults): the two dicts after the call
UpdateProperties(kwargs, defaults) ==
    LET k == SanitizePlotProperties(kwargs)
        d == SanitizePlotProperties(defaults)
    IN  [kwargs   |-> [x \in (DOMAIN k) \cup (DOMAIN d) |->
                          IF x \in DOMAIN k THEN k[x] ELSE d[x]],
         defaults |-> d]

SanitizeProps(kwargs) ==
    /\ ncalls < MaxCalls
    /\ call' = [op |-> "_sanitize_plot_properties", status |-> "ok",
                args |-> [kwargs |-> kwargs],
                kwargs |-> SanitizePlotProperties(kwargs)]
    /\ ncalls' = ncalls + 1
    /\ UNCHANGED <<dataset, ax, driver>>

UpdateProps(kwargs, defaults) ==
    /\ ncalls < MaxCalls
    /\ \E r \in {UpdateProperties(kwargs, defaults)} :
           call' = [op |-> "_update_properties", status |-> "ok",
                    args |-> [kwargs |-> kwargs, defaults |-> defaults],
                    kwargs |-> r.kwargs, defaults |-> r.defaults]
    /\ ncalls' = ncalls + 1
    /\ UNCHANGED <<dataset, ax, driver>>

-----------------------------------------------------------------------------
(* scatter_statistics *)

\* counts._spikeins and counts._otherfeatures: the names of the spike-in and
\* of the other (unmapped) rows of the counts table, rows without reads
Spikeins == <<"ERCC-1">>

OtherFeatures == <<"__other">>

\* counts.index with these rows: the feature g, the spike-ins, the others
CountsIndex == <<"g">> \o Spikeins \o OtherFeatures

\* counts.exclude_features(spikeins=True, other=True, errors='ignore')
ExcludeFeatures(index) ==
    SelectSeq(index, LAMBDA f : f \notin Range(Spikeins) \cup Range(OtherFeatures))

\* the argument `features`: a string or a list of feature names
FeatName(name) == [isstr |-> TRUE, name |-> name, list |-> <<>>]

FeatList(list) == [isstr |-> FALSE, name |-> "", list |-> list]

\* the rows of `counts` after the selection by `features`: 'total' keeps the
\* table, 'mapped' excludes spike-ins and others, anything else goes to
\* counts.loc[features] (KeyError for a label that is no row; a Series, which
\* has no get_statistics, for a single label that is one)
StatFeatures(features) ==
    IF features.isstr /\ features.name = "total"
    THEN [status |-> "ok", index |-> CountsIndex]
    ELSE IF features.isstr /\ features.name = "mapped"
    THEN [status |-> "ok", index |-> ExcludeFeatures(CountsIndex)]
    ELSE IF features.isstr
    THEN [status |-> IF features.name \in Range(CountsIndex) THEN "AttributeError"
                     ELSE "KeyError",
          index |-> <<>>]
    ELSE IF Range(features.list) \subseteq Range(CountsIndex)
    THEN [status |-> "ok", index |-> features.list]
    ELSE [status |-> "KeyError", index |-> <<>>]

\* stats.loc[:, 'mean']: the mean count of each selected feature
StatMean(ds, index) ==
    [k \in 1..Len(index) |-> IF index[k] \in DataIndex
                             THEN ArrMean(ItemValues(ds, index[k]))
                             ELSE Fin(0, 1)]

\* Plot.scatter_statistics(features, x='mean', y='cv', ax, **kwargs): one
\* scatter of the selected features; the function ends without a return
\* statement
ScatterStatisticsCall(ds, a, features, kwargs) ==
    LET p   == UpdateProperties(kwargs, [s |-> "10", color |-> "darkgrey"])
        r0  == [op |-> "scatter_statistics", status |-> "ok",
                args |-> [features |-> features, kwargs |-> kwargs],
                kwargs |-> p.kwargs, drawn |-> <<>>, returns |-> "None"]
        sel == StatFeatures(features)
    IN  IF sel.status # "ok"
        THEN [ax |-> a, call |-> [r0 EXCEPT !.status = sel.status]]
        ELSE [ax   |-> [a EXCEPT !.draws = a.draws + 1],
              call |-> [r0 EXCEPT !.drawn = <<[what |-> "scatter",
                                              features |-> sel.index,
                                              x |-> StatMean(ds, sel.index),
                                              kwargs |-> p.kwargs]>>]]

ScatterStatistics(features, kwargs) ==
    /\ ncalls < MaxCalls
    /\ \E r \in {ScatterStatisticsCall(dataset, ax, features, kwargs)} :
           /\ ax' = r.ax
           /\ call' = r.call
    /\ ncalls' = ncalls + 1
    /\ UNCHANGED <<dataset, driver>>

-----------------------------------------------------------------------------
(* plot_coverage, plot_distributions *)

\* counts.values.sum(axis=0), sorted: the coverage of each sample, the
\* counts holding the single feature g
CoverageX(ds) == ArrSort(ItemValues(ds, "g"))

\* 1.0 - np.linspace(0, 1, len(x))
CoverageY(n) == [k \in 1..n |-> FSub(Fin(1, 1), Linspace01(n)[k])]

\* Plot.plot_coverage(features='total', kind, ax)
PlotCoverageCall(ds, a, kind) ==
    LET r0 == [op |-> "plot_coverage", status |-> "ok", args |-> [kind |-> kind],
               drawn |-> <<>>, returns |-> "ax"]
    IN  IF kind = "cumulative"
        THEN [ax   |-> [a EXCEPT !.draws = a.draws + 1],
              call |-> [r0 EXCEPT !.drawn = <<[what |-> "cumulative", x |-> CoverageX(ds),
                                              y |-> CoverageY(NumSamples)]>>]]
        ELSE [ax |-> a, call |-> [r0 EXCEPT !.status = "ValueError"]]

PlotCoverage(kind) ==
    /\ ncalls < MaxCalls
    /\ \E r \in {PlotCoverageCall(dataset, ax, kind)} :
           /\ ax' = r.ax
           /\ call' = r.call
    /\ ncalls' = ncalls + 1
    /\ UNCHANGED <<dataset, driver>>

\* np.maximum(counts, bottom): a new table, the counts floored at bottom
CountsFloor(values, bottom) ==
    [i \in 1..Len(values) |-> IF FLt(values[i], bottom) THEN bottom ELSE values[i]]

\* plot_distributions that draws a violin plot for an unknown kind
PlotDistributionsAnyKind(ds, a, kind, orientation, bottom) ==
    [ax   |-> [a EXCEPT !.draws = a.draws + 1],
     call |-> [op |-> "plot_distributions", status |-> "ok",
               args |-> [kind |-> kind, orientation |-> orientation, bottom |-> bottom],
               drawn |-> <<[what |-> IF kind \in {"box", "swarm"} THEN kind ELSE "violin",
                            orient |-> orientation,
                            data |-> CountsFloor(ItemValues(ds, "g"), bottom)]>>,
               returns |-> "ax"]]

\* Plot.plot_distributions(features=['g'], kind, ax, orientation, bottom):
\* one seaborn plot of the chosen kind of np.maximum(counts, bottom); no
\* table is assigned to
PlotDistributionsCall(ds, a, kind, orientation, bottom) ==
    LET r0 == [op |-> "plot_distributions", status |-> "ok",
               args |-> [kind |-> kind, orientation |-> orientation, bottom |-> bottom],
               drawn |-> <<>>, returns |-> "ax"]
    IN  IF kind \in {"violin", "box", "swarm"}
        THEN [ax   |-> [a EXCEPT !.draws = a.draws + 1],
              call |-> [r0 EXCEPT !.drawn = <<[what |-> kind, orient |-> orientation,
                                              data |-> CountsFloor(ItemValues(ds, "g"),
                                                                   bottom)]>>]]
        ELSE [ax |-> a, call |-> [r0 EXCEPT !.status = "ValueError"]]

PlotDistributions(kind, orientation, bottom) ==
    /\ ncalls < MaxCalls
    /\ \E r \in {PlotDistributionsCall(dataset, ax, kind, orientation, bottom)} :
           /\ ax' = r.ax
           /\ call' = r.call
    /\ ncalls' = ncalls + 1
    /\ UNCHANGED <<dataset, driver>>

-----------------------------------------------------------------------------
(* plot_group_abundance_changes *)

\* data.groupby([groupby, along]).count().unstack(fill_value=0): the number
\* of samples of each group (rows) at each value of `along` (columns), rows
\* and columns in sorted order
AbundanceTable(ds, groupby, along) ==
    LET gs == CdUnique(ColumnOf(ds, groupby))
        xs == CdUnique(ColumnOf(ds, along))
    IN  [i \in 1..Len(gs) |-> [j \in 1..Len(xs) |->
            Fin(Cardinality({s \in Samples : /\ ColumnOf(ds, groupby)[s] = gs[i]
                                             /\ ColumnOf(ds, along)[s] = xs[j]}), 1)]]

\* data.sum(axis=0): the total of each column
ColumnSums(table) ==
    [j \in 1..Len(table[1]) |-> ArrSum([i \in 1..Len(table) |-> table[i][j]])]

\* the normalization by kind ('number' leaves the table as it is), then
\* np.maximum(data, ymin)
AbundanceData(table, kind, ymin) ==
    LET scale == IF kind = "percent" THEN Fin(100, 1) ELSE Fin(1, 1)
        norm  == IF kind = "number" THEN table
                 ELSE [i \in 1..Len(table) |-> [j \in 1..Len(table[i]) |->
                          FDiv(FMul(scale, table[i][j]), ColumnSums(table)[j])]]
    IN  [i \in 1..Len(norm) |-> [j \in 1..Len(norm[i]) |->
            IF FLt(norm[i][j], Fin(ymin, 1)) THEN Fin(ymin, 1) ELSE norm[i][j]]]

\* the loop over the groups: ax.scatter of the group, then, `interpolate`
\* being by now the scipy module (a true value), the interpolation line;
\* dict.update(None) raises TypeError
RECURSIVE AbundanceDraw(_, _, _, _, _)
AbundanceDraw(gorder, data, args, ig, drawn) ==
    IF ig > Len(gorder) THEN [status |-> "ok", drawn |-> drawn]
    ELSE IF ~args.scatter_kwargs
    THEN [status |-> "TypeError", drawn |-> drawn]
    ELSE LET sc == Append(drawn, [what |-> "scatter", group |-> gorder[ig], y |-> data[ig]])
         IN  IF Len(data[ig]) < 2
             THEN \* pchip_interpolate needs two points
                  [status |-> "ValueError", drawn |-> sc]
             ELSE IF ~args.interpolate_kwargs
             THEN [status |-> "TypeError", drawn |-> sc]
             ELSE AbundanceDraw(gorder, data, args, ig + 1,
                     Append(sc, [what |-> "line", group |-> gorder[ig], y |-> data[ig]]))

\* Plot.plot_group_abundance_changes(groupby, along, kind, scatter,
\* interpolate, scatter_kwargs, interpolate_kwargs, ax); the two kwargs
\* arguments are modelled by whether a dict is given (TRUE) or None (FALSE)
AbundanceCall(ds, a, args) ==
    LET r0 == [op |-> "plot_group_abundance_changes", status |-> "ok", args |-> args,
               data |-> <<>>, drawn |-> <<>>, returns |-> "ax"]
    IN  IF args.kind \notin {"number", "fraction", "percent"}
        THEN [ax |-> a, call |-> [r0 EXCEPT !.status = "ValueError"]]
        ELSE LET data == AbundanceData(AbundanceTable(ds, args.groupby, args.along),
                                       args.kind, 0)
                 d    == AbundanceDraw(CdUnique(ColumnOf(ds, args.groupby)), data, args,
                                       1, <<>>)
             IN  [ax   |-> [a EXCEPT !.draws = a.draws + Len(d.drawn)],
                  call |-> [r0 EXCEPT !.status = d.status, !.data = data,
                                      !.drawn = d.drawn]]

AbundanceArgs(groupby, along, kind, scatter, interpolate, scatter_kwargs, interpolate_kwargs) ==
    [groupby |-> groupby, along |-> along, kind |-> kind, scatter |-> scatter,
     interpolate |-> interpolate, scatter_kwargs |-> scatter_kwargs,
     interpolate_kwargs |-> interpolate_kwargs]

\* data = self.dataset.samplesheet[[groupby, along]].copy(), and the
\* dataset after data['__count__'] = 1
AbundanceSheet == LocalTable

AbundanceDataset(ds) == Assign(ds, AbundanceSheet, "__count__")

PlotGroupAbundanceChanges(groupby, along, kind, scatter, interpolate, scatter_kwargs, interpolate_kwargs) ==
    /\ ncalls < MaxCalls
    /\ \E r \in {AbundanceCall(dataset, ax,
                    AbundanceArgs(groupby, along, kind, scatter, interpolate,
                                  scatter_kwargs, interpolate_kwargs))} :
           /\ ax' = r.ax
           /\ call' = r.call
    /\ dataset' = AbundanceDataset(dataset)
    /\ ncalls' = ncalls + 1
    /\ UNCHANGED driver

-----------------------------------------------------------------------------
(* clustermap *)

\* the featuresheet: one column, ftype, with the label of each feature
FeaturesheetColumns == {"ftype"}

FeatureType == [f \in 1..Cardinality(DataIndex) |-> "a"]

\* values of an annotation: a name (of a palette or of a colormap), a
\* palette object (a list of colours), a colormap object
AnnName(name) == [isstr |-> TRUE, name |-> name, list |-> <<>>]

AnnPalette(list) == [isstr |-> FALSE, name |-> "", list |-> list]

AnnCmap(name) == [isstr |-> FALSE, name |-> name, list |-> <<>>]

\* the local variable `palette`: unbound until a qualitative annotation
\* assigns it
NoPalette == [bound |-> FALSE, colors |-> <<>>]

\* sns.color_palette(name, n_colors=n)
ColorPalette(name, n) == [k \in 1..n |-> [src |-> name, ix |-> k - 1, alpha |-> 10]]

\* color_data and cmap_type of an annotation key; on the features axis the
\* key 'mean expression' is the mean count of each feature
AnnData(ds, axis, key) ==
    IF axis = "samples"
    THEN IF key \in MetadataColumns
         THEN [found |-> TRUE, values |-> ColumnOf(ds, key),
               type |-> IF IsCategorical(key) THEN "qualitative" ELSE "sequential"]
         ELSE IF key \in DataIndex
         THEN [found |-> TRUE, values |-> ColumnOf(ds, key), type |-> "sequential"]
         ELSE [found |-> FALSE, values |-> <<>>, type |-> ""]
    ELSE IF key = "mean expression"
         THEN [found |-> TRUE, values |-> <<ArrMean(ItemValues(ds, "g"))>>,
               type |-> "sequential"]
         ELSE IF key \in FeaturesheetColumns
         THEN [found |-> TRUE, values |-> FeatureType, type |-> "qualitative"]
         ELSE [found |-> FALSE, values |-> <<>>, type |-> ""]

\* the entry of cbars_samples / cbars_features of an annotation
NoCbi ==
    [name |-> "", type |-> "", has_ticklabels |-> FALSE, palette |-> <<>>, n_colors |-> 0,
     cmap |-> "", vmin |-> NaN, vmax |-> NaN]

\* a sequential annotation: c = cmap((values - vmin) / (vmax - vmin)) with
\* vmin, vmax the nanmin and nanmax of the values
AnnSequential(key, values, cmap, palette) ==
    LET um   == Unmask(values)
        vmin == IF Masked(values, um) = <<>> THEN NaN ELSE ArrMin(Masked(values, um))
        vmax == IF Masked(values, um) = <<>> THEN NaN ELSE ArrMax(Masked(values, um))
    IN  [status |-> "ok", palette |-> palette,
         c   |-> [i \in 1..Len(values) |-> CmapCall(cmap, CdNorm(values, vmin, vmax)[i])],
         cbi |-> [NoCbi EXCEPT !.name = key, !.type = "sequential", !.cmap = cmap,
                               !.vmin = vmin, !.vmax = vmax]]

\* a qualitative annotation given a palette name
AnnQualitativeName(key, values, name) ==
    LET cd_unique == CdUnique(values)
        pal       == ColorPalette(name, Len(cd_unique))
    IN  [status |-> "ok", palette |-> [bound |-> TRUE, colors |-> pal],
         c   |-> [i \in 1..Len(values) |-> pal[ListIndex(cd_unique, values[i]) + 1]],
         cbi |-> [NoCbi EXCEPT !.name = key, !.type = "qualitative",
                               !.has_ticklabels = TRUE, !.palette = pal,
                               !.n_colors = Len(cd_unique)]]

\* a qualitative annotation given a palette object: the length test reads
\* the local `palette` before `palette = val`, i.e. the palette left by an
\* earlier annotation, if any
AnnQualitativePalette(key, values, list, palette) ==
    LET cd_unique == CdUnique(values)
        n_colors  == Len(cd_unique)
        pal       == [k \in 1..Len(list) |-> NamedColor(list[k])]
        failed    == [status |-> "", palette |-> palette, c |-> <<>>, cbi |-> NoCbi]
    IN  IF ~palette.bound THEN [failed EXCEPT !.status = "UnboundLocalError"]
        ELSE IF Len(palette.colors) < n_colors THEN [failed EXCEPT !.status = "ValueError"]
        ELSE IF Len(pal) < n_colors
        THEN [failed EXCEPT !.status = "IndexError",
                            !.palette = [bound |-> TRUE, colors |-> pal]]
        ELSE [status |-> "ok", palette |-> [bound |-> TRUE, colors |-> pal],
              c   |-> [i \in 1..Len(values) |-> pal[ListIndex(cd_unique, values[i]) + 1]],
              cbi |-> [NoCbi EXCEPT !.name = key, !.type = "qualitative",
                                    !.palette = SubSeq(pal, 1, n_colors),
                                    !.n_colors = n_colors]]

\* one pass of the loop over annotate_samples.items() / annotate_features
AnnotateOne(ds, axis, key, val, palette) ==
    LET d      == AnnData(ds, axis, key)
        failed == [status |-> "", palette |-> palette, c |-> <<>>, cbi |-> NoCbi]
    IN  IF ~d.found THEN [failed EXCEPT !.status = "KeyError"]
        ELSE IF d.type = "qualitative"
        THEN IF val.isstr THEN AnnQualitativeName(key, d.values, val.name)
             ELSE AnnQualitativePalette(key, d.values, val.list, palette)
        ELSE IF ~val.isstr /\ val.list # <<>>
        THEN \* cmap = val; cmap(cval) with a list
             [failed EXCEPT !.status = "TypeError"]
        ELSE AnnSequential(key, d.values, val.name, palette)

\* the loop over the annotations of one axis; items is the dict as the
\* sequence of its <<key, value>> pairs
RECURSIVE Annotate(_, _, _, _, _, _)
Annotate(ds, axis, items, palette, col, cbars) ==
    IF items = <<>>
    THEN [status |-> "ok", palette |-> palette, col |-> col, cbars |-> cbars]
    ELSE LET r == AnnotateOne(ds, axis, Head(items)[1], Head(items)[2], palette)
         IN  IF r.status # "ok"
             THEN [status |-> r.status, palette |-> r.palette, col |-> col, cbars |-> cbars]
             ELSE Annotate(ds, axis, Tail(items), r.palette,
                           Append(col, r.c), Append(cbars, r.cbi))

\* the loop that creates the colorbars of one axis: an axes is added for
\* each annotation; a qualitative one reads cbi['ticklabels']
RECURSIVE Colorbars(_, _)
Colorbars(cbars, caxs) ==
    IF cbars = <<>> THEN [status |-> "ok", caxs |-> caxs]
    ELSE LET cbi  == Head(cbars)
             more == Append(caxs, cbi.name)
         IN  IF cbi.type = "qualitative" /\ ~cbi.has_ticklabels
             THEN [status |-> "KeyError", caxs |-> more]
             ELSE Colorbars(Tail(cbars), more)

\* a linkage matrix of an axis, computed by dataset.cluster.hierarchical
\* or supplied by the caller; None
NoLinkage == [given |-> FALSE, axis |-> "", by |-> ""]

Linkage(axis, by) == [given |-> TRUE, axis |-> axis, by |-> by]

\* the arguments cluster_samples / cluster_features: True, False, or a
\* linkage
ClusterBool(b) == [kind |-> "bool", b |-> b, linkage |-> NoLinkage]

ClusterGiven(axis) == [kind |-> "linkage", b |-> FALSE, linkage |-> Linkage(axis, "caller")]

\* linkage_samples / linkage_features from cluster_samples /
\* cluster_features
ClusterLinkage(cluster, axis) ==
    IF cluster.kind = "bool"
    THEN IF cluster.b THEN Linkage(axis, "hierarchical") ELSE NoLinkage
    ELSE cluster.linkage

\* data = self.dataset.counts.copy(): the table the rows of
\* phenotypes_cluster_features are added to
ClusterDataShared == "counts"

ClusterData == LocalTable

\* the dataset after the loop `data.loc[pheno] = samplesheet.loc[:, pheno]`
ClustermapDataset(ds, args) == AssignAll(ds, ClusterData, args.phenotypes_cluster_features)

\* the assignment of rows and columns that takes the samples for the
\* columns whatever the orientation
ClusterAxesHorizontal(hor, linkage_samples, linkage_features, col_samples, col_features) ==
    [row_linkage |-> linkage_features, col_linkage |-> linkage_samples,
     row_colors |-> col_features, col_colors |-> col_samples]

\* row_linkage, col_linkage, row_colors, col_colors by orientation
ClusterAxes(hor, linkage_samples, linkage_features, col_samples, col_features) ==
    IF hor
    THEN [row_linkage |-> linkage_features, col_linkage |-> linkage_samples,
          row_colors |-> col_features, col_colors |-> col_samples]
    ELSE [row_linkage |-> linkage_samples, col_linkage |-> linkage_features,
          row_colors |-> col_samples, col_colors |-> col_features]

\* the dict `defaults` of clustermap (labels_samples and labels_features
\* are True)
ClusterDefaults(axes) ==
    LET d0 == [yticklabels |-> TRUE, xticklabels |-> TRUE,
               row_colors |-> axes.row_colors, col_colors |-> axes.col_colors]
        d1 == IF axes.row_linkage.given
              THEN DictSet(DictSet(d0, "row_cluster", TRUE), "row_linkage", axes.row_linkage)
              ELSE DictSet(d0, "row_cluster", FALSE)
    IN  IF axes.col_linkage.given
        THEN DictSet(DictSet(d1, "col_cluster", TRUE), "col_linkage", axes.col_linkage)
        ELSE DictSet(d1, "col_cluster", FALSE)

\* the locals of a clustermap call and the grid it builds; stage is the part
\* of the function that was reached
ClusterBase(args) ==
    [op |-> "clustermap", status |-> "ok", stage |-> "annotate_samples", args |-> args,
     col_samples |-> <<>>, col_features |-> <<>>,
     cbars_samples |-> <<>>, cbars_features |-> <<>>,
     drawn |-> FALSE, row_colors |-> <<>>, col_colors |-> <<>>, transposed |-> FALSE,
     ncax |-> 0,
     has_cbars_columns |-> FALSE, ax_cbars_columns |-> <<>>,
     has_cbars_rows |-> FALSE, ax_cbars_rows |-> <<>>, returns |-> "g",
     data_rows |-> <<>>, linkage_samples |-> NoLinkage, linkage_features |-> NoLinkage,
     grid |-> <<>>]

\* the colorbars part of clustermap, after sns.clustermap
ClusterColorbars(r) ==
    LET hor == r.args.orientation = "horizontal"
        cs  == IF r.args.annotate_samples # <<>> THEN Colorbars(r.cbars_samples, <<>>)
               ELSE [status |-> "ok", caxs |-> <<>>]
        r1  == IF r.args.annotate_samples = <<>> \/ cs.status # "ok"
               THEN [r EXCEPT !.status = cs.status, !.ncax = Len(cs.caxs),
                              !.stage = IF cs.status = "ok" THEN "done" ELSE "colorbars"]
               ELSE IF hor
               THEN [r EXCEPT !.ncax = Len(cs.caxs), !.has_cbars_columns = TRUE,
                              !.ax_cbars_columns = cs.caxs]
               ELSE [r EXCEPT !.ncax = Len(cs.caxs), !.has_cbars_rows = TRUE,
                              !.ax_cbars_rows = cs.caxs]
        cf  == IF r.args.annotate_features # <<>> THEN Colorbars(r.cbars_features, <<>>)
               ELSE [status |-> "ok", caxs |-> <<>>]
    IN  IF r1.status # "ok" \/ r.args.annotate_features = <<>> THEN r1
        ELSE IF cf.status # "ok"
        THEN [r1 EXCEPT !.status = cf.status, !.ncax = r1.ncax + Len(cf.caxs),
                        !.stage = "colorbars"]
        ELSE IF hor
        THEN [r1 EXCEPT !.ncax = r1.ncax + Len(cf.caxs), !.has_cbars_rows = TRUE,
                        !.ax_cbars_rows = cf.caxs]
        ELSE [r1 EXCEPT !.ncax = r1.ncax + Len(cf.caxs), !.has_cbars_columns = TRUE,
                        !.ax_cbars_columns = cf.caxs]

\* Plot.clustermap(cluster_samples, cluster_features,
\* phenotypes_cluster_features, annotate_samples, annotate_features,
\* orientation, colorbars, **kwargs); an empty sequence stands for False;
\* grid is the keyword arguments sns.clustermap is called with
ClustermapCall(ds, args) ==
    LET r0 == [ClusterBase(args) EXCEPT
                 !.data_rows = <<"g">> \o args.phenotypes_cluster_features,
                 !.linkage_samples = ClusterLinkage(args.cluster_samples, "samples"),
                 !.linkage_features = ClusterLinkage(args.cluster_features, "features")]
        s  == Annotate(ds, "samples", args.annotate_samples, NoPalette, <<>>, <<>>)
        f  == Annotate(ds, "features", args.annotate_features, s.palette, <<>>, <<>>)
        r1 == [r0 EXCEPT !.col_samples = s.col, !.cbars_samples = s.cbars]
        r2 == [r1 EXCEPT !.col_features = f.col, !.cbars_features = f.cbars,
                         !.stage = "orientation"]
        hor == args.orientation = "horizontal"
        axes == ClusterAxes(hor, r0.linkage_samples, r0.linkage_features, s.col, f.col)
        r3 == [r2 EXCEPT !.stage = "done", !.drawn = TRUE, !.transposed = ~hor,
                         !.row_colors = axes.row_colors,
                         !.col_colors = axes.col_colors,
                         !.grid = UpdateProperties(args.kwargs, ClusterDefaults(axes)).kwargs]
    IN  IF s.status # "ok" THEN [r0 EXCEPT !.status = s.status]
        ELSE IF f.status # "ok"
        THEN [r1 EXCEPT !.status = f.status, !.stage = "annotate_features"]
        ELSE IF args.orientation \notin {"horizontal", "vertical"}
        THEN [r2 EXCEPT !.status = "ValueError"]
        ELSE IF args.colorbars THEN ClusterColorbars(r3)
        ELSE r3

ClusterArgs(cluster_samples, cluster_features, phenotypes_cluster_features, annotate_samples, annotate_features, orientation, colorbars, kwargs) ==
    [cluster_samples |-> cluster_samples, cluster_features |-> cluster_features,
     phenotypes_cluster_features |-> phenotypes_cluster_features,
     annotate_samples |-> annotate_samples, annotate_features |-> annotate_features,
     orientation |-> orientation, colorbars |-> colorbars, kwargs |-> kwargs]

\* clustermap draws on a figure of its own: the axes of the caller is left
\* alone
Clustermap(cluster_samples, cluster_features, phenotypes_cluster_features, annotate_samples, annotate_features, orientation, colorbars, kwargs) ==
    /\ ncalls < MaxCalls
    /\ \E args \in {ClusterArgs(cluster_samples, cluster_features,
                                phenotypes_cluster_features, annotate_samples,
                                annotate_features, orientation, colorbars, kwargs)} :
           /\ call' = ClustermapCall(dataset, args)
           /\ dataset' = ClustermapDataset(dataset, args)
    /\ ncalls' = ncalls + 1
    /\ UNCHANGED <<ax, driver>>

-----------------------------------------------------------------------------
(* test/test_counts_table.py: the driver of the counts-table test scripts *)

\* the scripts of the __main__ block, in its order
Scripts ==
    <<"test/counts_table/initialize.py", "test/counts_table/statistics.py",
      "test/counts_table/bin.py", "test/counts_table/initialize_sparse.py",
      "test/counts_table/statistics_sparse.py", "test/counts_table/initialize_xr.py",
      "test/counts_table/statistics_xr.py">>

\* the value run() gives to SINGLET_CONFIG_FILENAME; a value of an
\* environment variable is the list of its ':'-separated parts
ConfigFilename == <<"example_data/config_example.yml">>

\* os.path.dirname(os.path.dirname(__file__))
SingletPath == "singlet_path"

\* the environment run() builds for a script: a copy of os.environ with
\* SINGLET_CONFIG_FILENAME set and, on the machine X260, the path of the
\* package put in front of PYTHONPATH (KeyError if PYTHONPATH is not set)
RunEnv(node, environ) ==
    LET env == DictSet(environ, "SINGLET_CONFIG_FILENAME", ConfigFilename)
    IN  IF node # "X260" THEN [status |-> "none", env |-> env]
        ELSE IF "PYTHONPATH" \notin DOMAIN env THEN [status |-> "KeyError", env |-> env]
        ELSE [status |-> "none",
              env |-> DictSet(env, "PYTHONPATH", <<SingletPath>> \o env["PYTHONPATH"])]

\* subprocess.call in the place of check_call: the exit status is returned,
\* never raised
CallUnchecked(code) == "none"

\* subprocess.check_call: returns on exit status 0, raises otherwise
CheckCall(code) == IF code = 0 THEN "none" ELSE "CalledProcessError"

\* run(script) of the next line of the __main__ block, up to the start of
\* the script (where is None: neither early return is taken)
RunStart ==
    /\ driver.raised = "none"
    /\ ~driver.running
    /\ driver.next <= Len(Scripts)
    /\ \E r \in {RunEnv(driver.node, driver.environ)} :
           driver' = IF r.status # "none"
                     THEN [driver EXCEPT !.raised = r.status]
                     ELSE [driver EXCEPT
                             !.running = TRUE,
                             !.started = Append(@, [script |-> Scripts[driver.next],
                                                    env |-> r.env])]
    /\ UNCHANGED <<dataset, ax, call, ncalls>>

\* the script exits: check_call returns to run(), which returns to the
\* __main__ block, or raises through both
RunExit(code) ==
    /\ driver.running
    /\ driver' = [driver EXCEPT !.running = FALSE,
                                !.exits = Append(@, code),
                                !.next = @ + 1,
                                !.raised = CheckCall(code)]
    /\ UNCHANGED <<dataset, ax, call, ncalls>>

-----------------------------------------------------------------------------
(* initial states *)

\* a fresh axes: no _singlet_cmap, no _singlet_dotmap, nothing drawn
NewAxes ==
    [has_cmap |-> FALSE, singlet_cmap |-> [l \in {} |-> NamedColor("")],
     has_dotmap |-> FALSE, singlet_dotmap |-> [min_size |-> 0, cmap |-> ""],
     draws |-> 0]

NoCall == [op |-> "none", status |-> "ok"]

DefaultCt == [i \in Samples |-> LabelOrder[((i - 1) % Len(LabelOrder)) + 1]]

DefaultPh == [i \in Samples |-> Fin(i, 1)]

DefaultG == [i \in Samples |-> Fin(i - 1, 1)]

LabelColumns == [Samples -> Labels]

\* phenotype values: integers from -1 to MaxVal, or missing
PhenotypeValues == {Fin(v, 1) : v \in (-1)..MaxVal} \cup {NaN}

\* counts: integers from 0 to MaxVal
CountValues == {Fin(v, 1) : v \in 0..MaxVal}

DefaultCt2 == [i \in Samples |-> IF i = 1 THEN "a" ELSE "c"]

\* one dataset; counts_index and samplesheet_columns are the row labels of
\* the counts table and the column labels of the samplesheet
DefaultDataset ==
    [ct |-> DefaultCt, ct2 |-> DefaultCt2, ph |-> DefaultPh, g |-> DefaultG,
     counts_index |-> Range(CountsIndex), samplesheet_columns |-> MetadataColumns]

\* datasets in which the label column ct varies
CategoricalDatasets ==
    [ct : LabelColumns, ct2 : {DefaultCt2}, ph : {DefaultPh}, g : {DefaultG},
     counts_index : {Range(CountsIndex)}, samplesheet_columns : {MetadataColumns}]

\* datasets in which one numeric column varies
NumericDatasets ==
    [ct : {DefaultCt}, ct2 : {DefaultCt2}, ph : [Samples -> PhenotypeValues], g : {DefaultG},
     counts_index : {Range(CountsIndex)}, samplesheet_columns : {MetadataColumns}]
    \cup
    [ct : {DefaultCt}, ct2 : {DefaultCt2}, ph : {DefaultPh}, g : [Samples -> CountValues],
     counts_index : {Range(CountsIndex)}, samplesheet_columns : {MetadataColumns}]

\* datasets for dot_plot: the groups are a = {sample 1} and c = the others;
\* the feature or the (positive, non-missing) phenotype varies
DotDatasets ==
    [ct : {DefaultCt2}, ct2 : {DefaultCt2}, ph : {DefaultPh}, g : [Samples -> CountValues],
     counts_index : {Range(CountsIndex)}, samplesheet_columns : {MetadataColumns}]
    \cup
    [ct : {DefaultCt2}, ct2 : {DefaultCt2},
     ph : [Samples -> {Fin(v, 1) : v \in 1..MaxVal}], g : {DefaultG},
     counts_index : {Range(CountsIndex)}, samplesheet_columns : {MetadataColumns}]

\* the test driver before it is run, on some machine
IdleDriver ==
    [node |-> "other", environ |-> [v \in {} |-> <<>>], next |-> 1, running |-> FALSE,
     started |-> <<>>, exits |-> <<>>, raised |-> "none"]

InitWith(datasets) ==
    /\ dataset \in datasets
    /\ ax = NewAxes
    /\ call = NoCall
    /\ ncalls = 0
    /\ driver = IdleDriver

-----------------------------------------------------------------------------
(* inputs *)

\* no keyword argument
NoKwargs == [k \in {} |-> TRUE]

\* the dicts with keys among `keys` and values among `vals`
Dicts(keys, vals) == UNION {[K -> vals] : K \in SUBSET keys}

Palettes ==
    {PalName("viridis"),
     PalDict([l \in {"a"} |-> "red"]),
     PalDict([l \in Labels |-> IF l = "a" THEN "red" ELSE IF l = "b" THEN "blue" ELSE "green"]),
     PalList(<<"red", "blue">>),
     PalList(<<"red", "blue", "green">>),
     PalList(<<"red", "blue", "green", "black">>)}

ColorLogs == {"None", "True", "False"}

\* scatter_reduced coloured by a label column
ScatterCategoricalCalls ==
    \E color_by \in {"ct", "ct2"}, cmap \in Palettes :
        ScatterReduced(color_by, "None", cmap, "darkgrey", FALSE)

\* scatter_reduced coloured by a numeric phenotype or a feature, or not at all
ScatterNumericCalls ==
    \E color_by \in {"ph", "g", "None", "zz"}, color_log \in ColorLogs, hot \in BOOLEAN :
        ScatterReduced(color_by, color_log, PalName("viridis"), "darkgrey", hot)

NoOrder == [given |-> FALSE, order |-> <<>>]

Order(seq) == [given |-> TRUE, order |-> seq]

Vall == [kind |-> "all", v |-> NaN]

Vsingle == [kind |-> "single", v |-> NaN]

Vnum(n) == [kind |-> "num", v |-> Fin(n, 1)]

PlotLists == {<<"g">>, <<"ph">>, <<"g", "ph">>, <<"ph", "g">>}

\* dot_plot of the samples grouped by ct
DotPlotCalls ==
    \E plot_list \in PlotLists, color_log \in ColorLogs,
       vmin \in {Vall, Vsingle, Vnum(0)}, vmax \in {Vall, Vsingle, Vnum(1)} :
        DotPlot("ct", Order(<<"a", "b", "c">>), plot_list, color_log, vmin, vmax, 1, 2,
                "horizontal", "plasma")

\* dot_plot with the default colour domain
DotPlotLogCalls ==
    \E plot_list \in PlotLists, color_log \in ColorLogs :
        DotPlot("ct", Order(<<"a", "b", "c">>), plot_list, color_log, Vall, Vall, 1, 2,
                "horizontal", "plasma")

\* scatter_reduced coloured by a numeric column, every row in one batch
ScatterLogCalls ==
    \E color_by \in {"ph", "g"}, color_log \in ColorLogs :
        ScatterReduced(color_by, color_log, PalName("viridis"), "darkgrey", FALSE)

\* the first call on a fresh axes
FirstCall == ncalls = 0

\* sequences of categorical scatter_reduced calls on one axes
InitCat == InitWith(CategoricalDatasets)

SpecCat == InitCat /\ [][ScatterCategoricalCalls]_vars

\* one numeric scatter_reduced call on a fresh axes
InitNum == InitWith(NumericDatasets)

SpecNum == InitNum /\ [][FirstCall /\ ScatterNumericCalls]_vars

\* one dot_plot call on a fresh axes
InitDot == InitWith(DotDatasets)

SpecDot == InitDot /\ [][FirstCall /\ DotPlotCalls]_vars

\* one call, of scatter_reduced or of dot_plot, with every color_log
InitLog == InitWith(NumericDatasets \cup DotDatasets)

NextLog == FirstCall /\ (ScatterLogCalls \/ DotPlotLogCalls)

SpecLog == InitLog /\ [][NextLog]_vars

\* datasets for sequences of dot_plot calls: the feature varies on the
\* samples of group c
DotSeqDatasets == {d \in DotDatasets : d.ph = DefaultPh /\ d.g[1] = Fin(0, 1)}

\* dot_plot calls that differ in min_size and cmap
DotSeqCalls ==
    \E plot_list \in {<<"g">>, <<"g", "ph">>}, min_size \in {2, 5},
       cmap \in {"plasma", "viridis"} :
        DotPlot("ct", Order(<<"a", "b", "c">>), plot_list, "None", Vall, Vall, 1, min_size,
                "horizontal", cmap)

\* sequences of dot_plot calls on one axes
InitDotSeq == InitWith(DotSeqDatasets)

SpecDotSeq == InitDotSeq /\ [][DotSeqCalls]_vars

\* calls with every plot-kind string, recognized or not: kind of
\* plot_coverage, plot_distributions and plot_group_abundance_changes,
\* layout of dot_plot, orientation of clustermap
KindCalls ==
    \/ \E kind \in {"cumulative", "violin", "zz"} : PlotCoverage(kind)
    \/ \E kind \in {"violin", "box", "swarm", "cumulative", "zz"},
          orientation \in {"vertical", "horizontal"}, bottom \in {Fin(0, 1), Fin(1, 1)} :
           PlotDistributions(kind, orientation, bottom)
    \/ \E kind \in {"number", "fraction", "percent", "zz"},
          scatter \in BOOLEAN, interpolate \in BOOLEAN,
          scatter_kwargs \in BOOLEAN, interpolate_kwargs \in BOOLEAN :
           PlotGroupAbundanceChanges("ct", "ct2", kind, scatter, interpolate,
                                     scatter_kwargs, interpolate_kwargs)
    \/ \E layout \in {"horizontal", "vertical", "diagonal"},
          group_order \in {NoOrder, Order(<<"a", "b", "c">>), Order(<<"b">>)},
          plot_list \in {<<"g">>, <<"g", "ph">>, <<"zz">>} :
           DotPlot("ct", group_order, plot_list, "None", Vall, Vall, 1, 2, layout, "plasma")
    \/ \E orientation \in {"horizontal", "vertical", "diagonal"},
          annotate_samples \in {<<>>, <<<<"ct", AnnName("Set1")>>>>,
                                <<<<"ct", AnnPalette(<<"red">>)>>>>},
          annotate_features \in {<<>>, <<<<"mean expression", AnnName("viridis")>>>>} :
           Clustermap(ClusterBool(FALSE), ClusterBool(FALSE), <<>>, annotate_samples,
                      annotate_features, orientation, FALSE, NoKwargs)

\* one call, on a fresh axes, with a plot-kind string
InitKind == InitWith(CategoricalDatasets)

SpecKind == InitKind /\ [][FirstCall /\ KindCalls]_vars

\* calls whose results are compared across histories: dot_plot with and
\* without group_order, scatter_reduced, clustermap with one or two
\* annotations of the samples
PureCalls ==
    \/ \E group_order \in {NoOrder, Order(<<"a", "b", "c">>)}, min_size \in {2, 5} :
           DotPlot("ct", group_order, <<"g">>, "None", Vall, Vall, 1, min_size,
                   "horizontal", "plasma")
    \/ \E color_by \in {"ct", "g"},
          cmap \in {PalName("viridis"), PalList(<<"red", "blue", "green">>)} :
           ScatterReduced(color_by, "None", cmap, "darkgrey", FALSE)
    \/ \E first \in {<<>>, <<<<"ct", AnnName("Set1")>>>>, <<<<"g", AnnName("viridis")>>>>},
          val \in {AnnName("Set2"), AnnPalette(<<"red", "blue">>)} :
           Clustermap(ClusterBool(FALSE), ClusterBool(FALSE), <<>>,
                      first \o <<<<"ct2", val>>>>, <<>>, "horizontal", FALSE, NoKwargs)

\* sequences of such calls
InitPure == InitWith(DotSeqDatasets)

SpecPure == InitPure /\ [][PureCalls]_vars

\* annotations of the samples: label columns by palette name or palette
\* object, numeric columns by colormap name or colormap object
SampleAnnotations ==
    {<<"ct", AnnName("Set1")>>,
     <<"ct", AnnPalette(<<"red", "blue">>)>>,
     <<"ct", AnnPalette(<<"red", "blue", "green">>)>>,
     <<"ct2", AnnName("Set2")>>,
     <<"ct2", AnnPalette(<<"black", "white">>)>>,
     <<"ph", AnnName("viridis")>>,
     <<"ph", AnnCmap("plasma")>>}

\* annotate_samples: False, or a dict of one or two keys
AnnotateSamples ==
    {<<>>} \cup {<<x>> : x \in SampleAnnotations}
           \cup {<<p[1], p[2]>> : p \in {q \in SampleAnnotations \X SampleAnnotations :
                                                q[1][1] # q[2][1]}}

\* annotate_features: False, or a dict of one key
AnnotateFeatures ==
    {<<>>, <<<<"mean expression", AnnName("viridis")>>>>,
     <<<<"ftype", AnnName("Set1")>>>>, <<<<"ftype", AnnPalette(<<"red">>)>>>>}

ClustermapCalls ==
    \E annotate_samples \in AnnotateSamples, annotate_features \in AnnotateFeatures,
       orientation \in {"horizontal", "vertical"}, colorbars \in BOOLEAN :
        Clustermap(ClusterBool(FALSE), ClusterBool(FALSE), <<>>, annotate_samples,
                   annotate_features, orientation, colorbars, NoKwargs)

\* one clustermap call
InitCluster == InitWith(CategoricalDatasets)

SpecCluster == InitCluster /\ [][FirstCall /\ ClustermapCalls]_vars

\* scatter_statistics with each kind of `features` and a few keyword
\* arguments
StatCalls ==
    \E features \in {FeatName("total"), FeatName("mapped"), FeatName("all"),
                     FeatName("g"), FeatList(<<"g">>), FeatList(<<"g", "ERCC-1">>),
                     FeatList(<<"zz">>)},
       kwargs \in Dicts({"c", "color", "s"}, {"red"}) :
        ScatterStatistics(features, kwargs)

\* one call of any of the operations that draw on an axes
InitAxes == InitWith(CategoricalDatasets)

NextAxes == FirstCall /\ (KindCalls \/ StatCalls \/ ScatterCategoricalCalls)

SpecAxes == InitAxes /\ [][NextAxes]_vars

\* one call of one of the two keyword helpers, on dicts of short names, long
\* names and a name without alias
PropsCalls ==
    \/ \E kwargs \in Dicts({"lw", "linewidth", "c", "color", "s"}, {"1", "2"}) :
           SanitizeProps(kwargs)
    \/ \E kwargs \in Dicts({"c", "color", "s"}, {"1", "2"}),
          defaults \in Dicts({"c", "color", "s", "lw"}, {"3"}) :
           UpdateProps(kwargs, defaults)

InitProps == InitWith({DefaultDataset})

SpecProps == InitProps /\ [][FirstCall /\ PropsCalls]_vars

\* exit statuses of a script
ExitCodes == {0, 1, 2}

\* the driver run as a script, on either kind of machine, with or without
\* PYTHONPATH and SINGLET_CONFIG_FILENAME in its environment
InitDriver ==
    /\ dataset = DefaultDataset
    /\ ax = NewAxes
    /\ call = NoCall
    /\ ncalls = 0
    /\ \E node \in {"X260", "other"},
          environ \in Dicts({"PYTHONPATH", "SINGLET_CONFIG_FILENAME", "HOME"}, {<<"x">>}) :
           driver = [IdleDriver EXCEPT !.node = node, !.environ = environ]

NextDriver == RunStart \/ \E code \in ExitCodes : RunExit(code)

SpecDriver == InitDriver /\ [][NextDriver]_vars

\* clustermap with and without clustering of either axis, in both
\* orientations, the caller overriding row_cluster / col_cluster or not
LinkageCalls ==
    \E cluster_samples \in {ClusterBool(TRUE), ClusterBool(FALSE), ClusterGiven("samples")},
       cluster_features \in {ClusterBool(TRUE), ClusterBool(FALSE), ClusterGiven("features")},
       annotate_samples \in {<<>>, <<<<"ct", AnnName("Set1")>>>>},
       annotate_features \in {<<>>, <<<<"mean expression", AnnName("viridis")>>>>},
       orientation \in {"horizontal", "vertical"},
       kwargs \in Dicts({"row_cluster", "col_cluster"}, BOOLEAN) :
        Clustermap(cluster_samples, cluster_features, <<>>, annotate_samples,
                   annotate_features, orientation, FALSE, kwargs)

\* one such call
InitLinkage == InitWith({d \in CategoricalDatasets : d.ct[1] = "a"})

SpecLinkage == InitLinkage /\ [][FirstCall /\ LinkageCalls]_vars

\* calls of every plotting operation, among them those that work on a
\* table derived from the dataset: clustermap with
\* phenotypes_cluster_features, dot_plot with phenotypes in plot_list,
\* plot_distributions with a floor
FrameCalls ==
    \/ \E phenotypes \in {<<>>, <<"ph">>, <<"ph", "ct">>},
          orientation \in {"horizontal", "vertical"} :
           Clustermap(ClusterBool(FALSE), ClusterBool(TRUE), phenotypes, <<>>, <<>>,
                      orientation, FALSE, NoKwargs)
    \/ \E plot_list \in {<<"g">>, <<"ph">>, <<"g", "ph">>, <<"ph", "zz">>} :
           DotPlot("ct", Order(<<"a", "b", "c">>), plot_list, "None", Vall, Vall, 1, 2,
                   "horizontal", "plasma")
    \/ \E bottom \in {Fin(0, 1), Fin(1, 1)} : PlotDistributions("violin", "vertical", bottom)
    \/ PlotGroupAbundanceChanges("ct", "ct2", "number", TRUE, FALSE, TRUE, TRUE)
    \/ PlotCoverage("cumulative")
    \/ ScatterStatistics(FeatName("mapped"), NoKwargs)
    \/ \E color_by \in {"ct", "g"} :
           ScatterReduced(color_by, "None", PalName("viridis"), "darkgrey", FALSE)

\* sequences of such calls on one dataset
InitFrame == InitWith({d \in DotSeqDatasets : d.g[NumSamples] = Fin(1, 1)})

SpecFrame == InitFrame /\ [][FrameCalls]_vars

\* sequences of calls of both operations
Init == InitWith(CategoricalDatasets)

Next == ScatterCategoricalCalls \/ ScatterLogCalls \/ DotPlotLogCalls

Spec == Init /\ [][Next]_vars

-----------------------------------------------------------------------------
(* properties *)

\* position of a label in the natural order
LabelPos(l) == ListIndex(LabelOrder, l)

\* rank of a label among the distinct labels of a column
LabelRank(values, l) == Cardinality({m \in Range(values) : LabelPos(m) < LabelPos(l)})

\* the colour a palette resolves for label l of a column
ResolvedColor(cmap, default_color, values, l) ==
    LET n == Cardinality(Range(values))
    IN  CASE cmap.kind = "callable" ->
                CmapCall(cmap.name,
                         IF n = 1 THEN Fin(0, 1) ELSE Fin(LabelRank(values, l), n - 1))
          [] cmap.kind = "dict" ->
                NamedColor(IF l \in DOMAIN cmap.map THEN cmap.map[l] ELSE default_color)
          [] OTHER ->
                NamedColor(cmap.list[LabelRank(values, l) + 1])

\* the least / greatest element of a non-empty set of finite numbers
MinOf(S) == CHOOSE v \in S : \A w \in S : FLe(v, w)

MaxOf(S) == CHOOSE v \in S : \A w \in S : FLe(w, v)

\* the last call was scatter_reduced on a label column
CatCall == call.op = "scatter_reduced" /\ call.kind = "categorical"

\* ... and it returned
CatOk == CatCall /\ call.status = "ok"

\* the last call was scatter_reduced on a numeric column and computed colours
NumColored == call.op = "scatter_reduced" /\ call.kind = "numeric" /\ call.c # <<>>

\* the last call was a dot_plot that returned
DotOk == call.op = "dot_plot" /\ call.status = "ok"

\* the non-missing values of the colour column of the last call
Present == {call.values[i] : i \in {j \in Samples : ~IsNaN(call.values[j])}}

\* C1: a categorical scatter_reduced call that returns gives every row
\* exactly one colour, the one the palette resolves for the row's label; the
\* colour array is as long as the column and every row is drawn with it.
C1_EveryRowColored ==
    CatOk =>
        /\ Len(call.c) = NumSamples
        /\ \A i \in Samples :
              call.c[i] = ResolvedColor(call.args.cmap, call.args.default_color,
                                        call.values, call.values[i])
        /\ Len(call.batches) = 1
        /\ call.batches[1].rows = [i \in Samples |-> i]
        /\ call.batches[1].c = call.c

C1_Witness ==
    /\ CatOk
    /\ call.args.cmap.kind = "list"
    /\ Cardinality(Range(call.values)) = 2
    /\ call.batches # <<>>

\* C2 (as claimed): after a categorical call the keys of ax._singlet_cmap
\* are exactly the distinct labels of that call's column.
C2_Original ==
    CatOk =>
        /\ DOMAIN ax.singlet_cmap = Range(call.values)
        /\ \A l \in Range(call.values) :
              ax.singlet_cmap[l] = ResolvedColor(call.args.cmap, call.args.default_color,
                                                 call.values, l)

\* C2 (amended): a categorical call that returns merges its mapping into
\* ax._singlet_cmap: the keys become the earlier keys together with the
\* distinct labels of the call's column, each label of the column maps to the
\* colour the call used for it, and every other key keeps its colour.
C2_LegendMerged ==
    [][CatOk' =>
        /\ ax'.has_cmap
        /\ DOMAIN ax'.singlet_cmap = (DOMAIN ax.singlet_cmap) \cup Range(call'.values)
        /\ \A l \in Range(call'.values) :
              ax'.singlet_cmap[l] = ResolvedColor(call'.args.cmap, call'.args.default_color,
                                                  call'.values, l)
        /\ \A l \in (DOMAIN ax.singlet_cmap) \ Range(call'.values) :
              ax'.singlet_cmap[l] = ax.singlet_cmap[l]]_vars

C2_Witness ==
    /\ CatOk
    /\ ncalls = 2
    /\ (DOMAIN ax.singlet_cmap) \ Range(call.values) # {}
    /\ Range(call.values) \subseteq DOMAIN ax.singlet_cmap

\* C3 (as claimed): a list palette with fewer entries than distinct labels
\* makes the call fail with a ValueError-class configuration error, nothing
\* drawn.
C3_Original ==
    (/\ CatCall
     /\ call.args.cmap.kind = "list"
     /\ Len(call.args.cmap.list) < Cardinality(Range(call.values)))
    => (call.status = "ValueError" /\ call.batches = <<>>)

\* C4: with a dict palette every label in the dict gets its mapped colour and
\* every label absent from it gets default_color, in the row colours and in
\* the recorded legend mapping.
C4_DictPalette ==
    (CatCall /\ call.args.cmap.kind = "dict") =>
        /\ call.status = "ok"
        /\ \A i \in Samples :
              LET l    == call.values[i]
                  want == NamedColor(IF l \in DOMAIN call.args.cmap.map
                                     THEN call.args.cmap.map[l]
                                     ELSE call.args.default_color)
              IN  /\ call.c[i] = want
                  /\ l \in DOMAIN ax.singlet_cmap
                  /\ ax.singlet_cmap[l] = want

C4_Witness ==
    /\ CatOk
    /\ call.args.cmap.kind = "dict"
    /\ \E l \in Range(call.values) : l \in DOMAIN call.args.cmap.map
    /\ \E l \in Range(call.values) : l \notin DOMAIN call.args.cmap.map

\* C5: with missing entries in a numeric column (and at least one entry
\* present) the domain minimum and maximum are those of the present entries,
\* every missing row gets default_color at alpha 0.3 and every present row
\* the colormap value of its normalized value.
C5_MissingRows ==
    (NumColored /\ \E i \in Samples : IsNaN(call.values[i])) =>
        LET lo == MinOf(Present)
            hi == MaxOf(Present)
        IN  /\ ~call.log => (call.cd_min = lo /\ call.cd_max = hi)
            /\ call.log => /\ call.cd_min = Log10(FAdd(lo, call.pc))
                           /\ call.cd_max = Log10(FAdd(hi, call.pc))
            /\ \A i \in Samples :
                  IF IsNaN(call.values[i])
                  THEN call.c[i] = [src |-> call.args.default_color, ix |-> -1, alpha |-> 3]
                  ELSE /\ call.c[i] = CmapCall(call.args.cmap.name, call.cd_norm[i])
                       /\ (~call.log /\ lo # hi) =>
                             call.cd_norm[i] = Fin(call.values[i].n - lo.n, hi.n - lo.n)
            /\ call.status = "ok" =>
                  (Len(call.batches) = 1 /\ call.batches[1].c = call.c)

C5_Witness ==
    /\ NumColored
    /\ call.status = "ok"
    /\ ~call.log
    /\ \E i \in Samples : IsNaN(call.values[i])
    /\ Cardinality(Present) = 2
    /\ \E i \in Samples : call.c[i].ix = CmapN - 1

\* C6 (as claimed): a degenerate domain (resolved minimum = resolved
\* maximum) makes the call fail with a configuration error and no colours.
C6_Original ==
    (/\ call.op = "scatter_reduced"
     /\ call.kind = "numeric"
     /\ FEq(call.cd_min, call.cd_max))
    => (call.status = "ValueError" /\ call.c = <<>>)

\* C7 (as claimed): a pseudocount <= 0 makes the call fail with a
\* configuration error instead of proceeding to the logarithm.
C7_Original ==
    (/\ call.op = "scatter_reduced"
     /\ call.kind = "numeric"
     /\ call.log
     /\ ~FLt(Fin(0, 1), call.pc))
    => (call.status = "ValueError" /\ call.c = <<>>)

\* C8 (as claimed): every scalar handed to the colormap by dot_plot lies in
\* [0,1], also with explicit vmin / vmax that do not enclose the levels.
C8_Original ==
    DotOk =>
        \A q \in 1..Len(call.shade) :
            (IsFin(call.vm[q]) /\ IsFin(call.vM[q]) /\ call.vm[q] # call.vM[q]) =>
                (FLe(Fin(0, 1), call.shade[q]) /\ FLe(call.shade[q], Fin(1, 1)))

\* C9: in dot_plot 'min' is the minimum level over all points, 'min_single'
\* the minimum over the points of the item, a number is used unchanged;
\* likewise for vmax; a point's shade is (level - vm) / (vM - vm) with the
\* bounds of its item.
C9_DotDomain ==
    DotOk =>
        \A q \in 1..Len(call.points) :
            LET all == {call.points[k].level : k \in 1..Len(call.points)}
                own == {call.points[k].level :
                           k \in {j \in 1..Len(call.points) :
                                     call.points[j].count = call.points[q].count}}
                vm  == CASE call.args.vmin.kind = "all"    -> MinOf(all)
                         [] call.args.vmin.kind = "single" -> MinOf(own)
                         [] OTHER                          -> call.args.vmin.v
                vM  == CASE call.args.vmax.kind = "all"    -> MaxOf(all)
                         [] call.args.vmax.kind = "single" -> MaxOf(own)
                         [] OTHER                          -> call.args.vmax.v
            IN  /\ call.vm[q] = vm
                /\ call.vM[q] = vM
                /\ call.shade[q] = FDiv(FSub(call.points[q].level, vm), FSub(vM, vm))

C9_Witness ==
    /\ DotOk
    /\ Len(call.args.plot_list) = 2
    /\ call.args.vmin.kind = "single"
    /\ call.args.vmax.kind = "all"
    /\ \E q \in 1..Len(call.points) :
          /\ call.vm[q] # MinOf({call.points[k].level : k \in 1..Len(call.points)})
          /\ IsFin(call.shade[q])
          /\ FLt(Fin(0, 1), call.shade[q])

\* C10: color_log=None takes the logarithm of feature counts only, never of
\* a phenotype column; color_log=True / False is honoured for both kinds; in
\* scatter_reduced per color_by column and in dot_plot per item of plot_list.
C10_DefaultLog ==
    /\ NumColored =>
          LET want == \/ call.args.color_log = "True"
                      \/ (call.args.color_log = "None" /\ call.args.color_by \in DataIndex)
          IN  /\ call.log = want
              /\ call.cd_max = IF want THEN Log10(FAdd(MaxOf(Present), call.pc))
                               ELSE MaxOf(Present)
    /\ DotOk =>
          \A q \in 1..Len(call.points) :
              LET item == call.points[q].count
                  want == \/ call.args.color_log = "True"
                          \/ (call.args.color_log = "None" /\ item \in DataIndex)
                  rows == {i \in Samples : dataset.ct[i] = call.points[q].group}
                  raw  == {ColumnOf(dataset, item)[i] : i \in rows}
              IN  /\ call.points[q].clog = want
                  \* a group of equal values: its level is the value or its logarithm
                  /\ Cardinality(raw) = 1 =>
                        \A v \in raw :
                            call.points[q].level =
                                IF want THEN Log10(FAdd(v, CountsPseudocount)) ELSE v

C10_Witness ==
    /\ DotOk
    /\ call.args.color_log = "None"
    /\ call.args.plot_list = <<"g", "ph">>
    /\ \E q \in 1..Len(call.points) : call.points[q].clog
    /\ \E q \in 1..Len(call.points) : ~call.points[q].clog

\* the tier of the rows of a batch of the last call (all rows of a batch
\* share it)
BatchTier(q) == call.tiers[call.batches[q].rows[1]]

\* the last call was scatter_reduced with high_on_top on a numeric column
\* without missing entries and with at least two distinct values
HotCall ==
    /\ NumColored
    /\ call.args.high_on_top
    /\ \A i \in Samples : ~IsNaN(call.values[i])
    /\ Cardinality(Present) >= 2
    /\ (call.log => FLt(Fin(0, 1), FAdd(MinOf(Present), call.pc)))

\* C11 (as claimed): with high_on_top and a numeric column the rows are
\* drawn batch by batch in strictly ascending tier order, every row in the
\* batch of its tier, and the batch drawn last is the highest tier, which
\* holds the row with the maximum value.
C11_Original ==
    HotCall =>
        /\ call.status = "ok"
        /\ call.batches # <<>>
        /\ \A p, q \in 1..Len(call.batches) :
              p < q => FLt(BatchTier(p), BatchTier(q))
        /\ \A i \in Samples :
              \E q \in 1..Len(call.batches) :
                  /\ i \in Range(call.batches[q].rows)
                  /\ FEq(BatchTier(q), call.tiers[i])
        /\ \A i \in Samples :
              call.values[i] = MaxOf(Present) =>
                  i \in Range(call.batches[Len(call.batches)].rows)

\* the last call was scatter_reduced with high_on_top on a numeric column
\* and computed the tiers
TierCall == NumColored /\ call.args.high_on_top

\* the rows of the last call whose normalized value is a number
NormRows == {i \in Samples : IsFin(call.cd_norm[i])}

\* the distinct quantile edges of the normalized values, ascending
NormEdges ==
    LET xs == ArrSort(Masked(call.cd_norm, Unmask(call.cd_norm)))
    IN  IF xs = <<>> THEN <<>> ELSE Dedup([k \in 1..5 |-> Quantile4(xs, k - 1)])

\* C12: binning into 4 quantile buckets gives at most 4 distinct tier
\* indices (0..3), non-decreasing in the value; a value equal to a bucket
\* boundary is in the bucket below the boundary; duplicate edges collapse
\* without error (every row with a value still has a tier, a row without one
\* has none); the maximum value is in the highest realized tier.
C12_QuantileTiers ==
    TierCall =>
        /\ Len(call.tiers) = NumSamples
        /\ \A i \in Samples \ NormRows : IsNaN(call.tiers[i])
        /\ \A i \in NormRows :
              /\ call.tiers[i] \in {Fin(t, 1) : t \in 0..3}
              /\ call.tiers[i].n <= Len(NormEdges) - 2
        /\ Cardinality({call.tiers[i] : i \in NormRows}) <= 4
        /\ \A i, j \in NormRows :
              /\ FLe(call.cd_norm[i], call.cd_norm[j]) => FLe(call.tiers[i], call.tiers[j])
        /\ \A i \in NormRows : \A e \in 2..Len(NormEdges) :
              call.cd_norm[i] = NormEdges[e] => call.tiers[i] = Fin(e - 2, 1)
        /\ \A i \in NormRows :
              (\A j \in NormRows : FLe(call.cd_norm[j], call.cd_norm[i])) =>
                  \A j \in NormRows : FLe(call.tiers[j], call.tiers[i])

C12_Witness ==
    /\ TierCall
    /\ Len(NormEdges) >= 3
    /\ \E i \in NormRows : \E e \in 2..(Len(NormEdges) - 1) : call.cd_norm[i] = NormEdges[e]
    /\ \E i \in NormRows : call.tiers[i] = Fin(Len(NormEdges) - 2, 1)

\* C13: the size of every dot drawn by dot_plot is
\* min_size + (fraction * 11) ** 2 of its group's fraction, unclamped:
\* exactly min_size at fraction 0, 32.25 at fraction 0.5 with min_size 2, and
\* strictly increasing in the fraction.
C13_DotSize ==
    DotOk =>
        /\ call.batches[1].s = call.s
        /\ \A q \in 1..Len(call.points) :
              LET f == call.points[q].fraction
              IN  /\ IsFin(f) /\ FLe(Fin(0, 1), f) /\ FLe(f, Fin(1, 1))
                  /\ call.s[q] = Fin(call.args.min_size * f.d * f.d + 121 * f.n * f.n,
                                     f.d * f.d)
                  /\ f = Fin(0, 1) => call.s[q] = Fin(call.args.min_size, 1)
                  /\ (f = Fin(1, 2) /\ call.args.min_size = 2) => call.s[q] = Fin(129, 4)
        /\ \A p, q \in 1..Len(call.points) :
              FLt(call.points[p].fraction, call.points[q].fraction)
                  => FLt(call.s[p], call.s[q])

C13_Witness ==
    /\ DotOk
    /\ \E q \in 1..Len(call.points) :
          call.points[q].fraction = Fin(1, 2) /\ call.s[q] = Fin(129, 4)
    /\ \E q \in 1..Len(call.points) :
          call.points[q].fraction = Fin(0, 1) /\ call.s[q] = Fin(2, 1)

\* C14 (as claimed): after a dot_plot call that returns, ax._singlet_dotmap
\* holds the size function (its min_size) and the colormap that this call
\* used to draw its dots, whatever earlier calls on the axes used.
C14_Original ==
    DotOk =>
        /\ ax.has_dotmap
        /\ ax.singlet_dotmap = [min_size |-> call.args.min_size, cmap |-> call.args.cmap]

\* the last call was scatter_reduced with a color_by that is neither a
\* column of the metadata nor a row of the data
UnknownKeyCall ==
    /\ call.op = "scatter_reduced"
    /\ call.args.color_by # "None"
    /\ call.args.color_by \notin MetadataColumns \cup DataIndex

\* C15 (as claimed): an unknown color_by fails with a lookup error (in
\* Python a LookupError: KeyError or IndexError), nothing is drawn on the
\* axes and its _singlet_cmap is neither created nor updated.
C15_Original ==
    UnknownKeyCall =>
        /\ call.status \in {"KeyError", "IndexError"}
        /\ call.batches = <<>>
        /\ ax = NewAxes

\* the plot-kind string of call c is not one of the supported ones, and the
\* call gets as far as looking at it (dot_plot looks at the layout when it
\* builds the first point, clustermap after the annotations)
Unrecognized(ds, c) ==
    CASE c.op = "plot_coverage" -> c.args.kind # "cumulative"
      [] c.op = "plot_distributions" -> c.args.kind \notin {"violin", "box", "swarm"}
      [] c.op = "plot_group_abundance_changes" ->
            c.args.kind \notin {"number", "fraction", "percent"}
      [] c.op = "dot_plot" ->
            /\ c.args.layout \notin {"horizontal", "vertical"}
            /\ Range(c.args.plot_list) \subseteq DataIndex \cup MetadataColumns
            /\ Range(c.groups) \cap Range(ColumnOf(ds, c.args.group_by)) # {}
      [] c.op = "clustermap" ->
            /\ c.args.orientation \notin {"horizontal", "vertical"}
            /\ c.stage \notin {"annotate_samples", "annotate_features"}
      [] OTHER -> FALSE

\* nothing was drawn by call c
NothingDrawn(c) ==
    CASE c.op = "dot_plot" -> c.batches = <<>>
      [] c.op = "clustermap" -> ~c.drawn /\ c.ncax = 0
      [] OTHER -> c.drawn = <<>>

\* what call c drew is of the kind it was asked for
DrawnAsAsked(c) ==
    CASE c.op \in {"plot_coverage", "plot_distributions"} ->
            Len(c.drawn) = 1 /\ c.drawn[1].what = c.args.kind
      [] c.op = "dot_plot" ->
            \A q \in 1..Len(c.points) :
                LET ig == ListIndex(c.args.plot_list, c.points[q].count)
                    g  == ListIndex(c.groups, c.points[q].group)
                IN  IF c.args.layout = "horizontal"
                    THEN c.batches[1].x[q] = ig /\ c.batches[1].y[q] = g
                    ELSE c.batches[1].x[q] = g /\ c.batches[1].y[q] = ig
      [] c.op = "clustermap" -> c.transposed = (c.args.orientation = "vertical")
      [] OTHER -> TRUE

\* C16: a call with an unrecognized plot-kind string (kind, layout,
\* orientation) fails with ValueError, a configuration error, with nothing
\* drawn and the caller's axes untouched; a call that returns drew the kind
\* it was asked for, so no unknown string is taken for a supported one.
C16_UnknownKind ==
    [][/\ Unrecognized(dataset, call') =>
            /\ call'.status = "ValueError"
            /\ NothingDrawn(call')
            /\ ax' = ax
       /\ (call'.op \in {"plot_coverage", "plot_distributions", "dot_plot", "clustermap"}
           /\ call'.status = "ok") =>
            /\ ~Unrecognized(dataset, call')
            /\ DrawnAsAsked(call')]_vars

C16_Witness ==
    /\ call.op = "dot_plot"
    /\ call.args.layout = "diagonal"
    /\ call.status = "ValueError"
    /\ ExistingGroups(dataset, call.args.group_by, call.groups) # <<>>
    /\ ax.draws = 0

\* what a call computed for its rows: colours, sizes, tiers, positions
Encoding(c) ==
    CASE c.op = "scatter_reduced" -> <<c.status, c.c, c.tiers, c.batches>>
      [] c.op = "dot_plot" -> <<c.status, c.points, c.s, c.c, c.batches>>
      [] c.op = "clustermap" -> <<c.status, c.col_samples, c.col_features>>
      [] OTHER -> <<c.status>>

\* the outcome of the last annotation of the samples of clustermap call c:
\* its colours, or the error it raised
LastAnnotation(c) ==
    IF c.status = "ok" THEN <<"ok", c.col_samples[Len(c.col_samples)]>>
    ELSE <<c.status, <<>>>>

\* C17 (as claimed): the encoding is a function of the dataset and of the
\* arguments of the call: a call with the arguments of the call before it
\* computes the same colours, sizes, tiers and positions, and in clustermap
\* the outcome of an annotation is the one it has as the only annotation.
C17_Original ==
    [][/\ (call.op = call'.op /\ call'.args = call.args) =>
            Encoding(call') = Encoding(call)
       /\ (call'.op = "clustermap" /\ Len(call'.args.annotate_samples) = 2
           /\ Len(call'.col_samples) >= 1) =>
            LastAnnotation(call') =
                LastAnnotation(ClustermapCall(dataset,
                    [call'.args EXCEPT !.annotate_samples = Tail(@)]))]_vars

\* the last call was clustermap
ClusterCall == call.op = "clustermap"

\* position k of annotate_samples is a label column given a palette object,
\* and every annotation before it is given by name
PaletteAt(k) ==
    /\ k \in 1..Len(call.args.annotate_samples)
    /\ IsCategorical(call.args.annotate_samples[k][1])
    /\ ~call.args.annotate_samples[k][2].isstr
    /\ \A j \in 1..(k - 1) : call.args.annotate_samples[j][2].isstr

\* C18 (as claimed): a qualitative annotation given a palette object is
\* accepted when the palette has at least as many colours as the column has
\* categories, each sample getting palette[rank of its category], and fails
\* with ValueError when it has fewer, at any position among the keys.
C18_Original ==
    ClusterCall =>
        \A k \in 1..Len(call.args.annotate_samples) :
            PaletteAt(k) =>
                LET values == ColumnOf(dataset, call.args.annotate_samples[k][1])
                    list   == call.args.annotate_samples[k][2].list
                IN  IF Len(list) >= Cardinality(Range(values))
                    THEN /\ Len(call.col_samples) >= k
                         /\ \A i \in Samples :
                               call.col_samples[k][i] =
                                   NamedColor(list[LabelRank(values, values[i]) + 1])
                    ELSE /\ call.status = "ValueError"
                         /\ call.stage = "annotate_samples"
                         /\ Len(call.col_samples) = k - 1

\* C19 (as claimed): with colorbars=True a clustermap call whose
\* annotations were processed completes, creates exactly one colorbar axes
\* for every annotation of samples and of features, and records them on the
\* grid, the samples' and the features' on ax_cbars_columns / ax_cbars_rows
\* according to the orientation.
C19_Original ==
    (ClusterCall /\ call.args.colorbars
     /\ call.stage \notin {"annotate_samples", "annotate_features"}) =>
        LET ns  == Len(call.args.annotate_samples)
            nf  == Len(call.args.annotate_features)
            hor == call.args.orientation = "horizontal"
            names(items) == [k \in 1..Len(items) |-> items[k][1]]
            scb == IF hor THEN call.ax_cbars_columns ELSE call.ax_cbars_rows
            fcb == IF hor THEN call.ax_cbars_rows ELSE call.ax_cbars_columns
        IN  /\ call.status = "ok"
            /\ call.ncax = ns + nf
            /\ scb = names(call.args.annotate_samples)
            /\ fcb = names(call.args.annotate_features)

\* the last call, of plot_group_abundance_changes, drew `what` for group g
AbundanceDrew(what, g) ==
    \E k \in 1..Len(call.drawn) : call.drawn[k].what = what /\ call.drawn[k].group = g

\* C20 (as claimed): a plot_group_abundance_changes call that returns drew
\* the scatter plot of each group iff scatter is true and the interpolation
\* line of each group iff interpolate is true.
C20_Original ==
    (call.op = "plot_group_abundance_changes" /\ call.status = "ok") =>
        \A g \in Range(ColumnOf(dataset, call.args.groupby)) :
            /\ AbundanceDrew("scatter", g) <=> call.args.scatter
            /\ AbundanceDrew("line", g) <=> call.args.interpolate

\* C21 (as stated): a plot_group_abundance_changes call with a valid kind,
\* valid groupby and along columns and the default scatter_kwargs=None and
\* interpolate_kwargs=None completes without error.
C21_Original ==
    (/\ call.op = "plot_group_abundance_changes"
     /\ call.args.kind \in {"number", "fraction", "percent"}
     /\ call.args.groupby \in MetadataColumns
     /\ call.args.along \in MetadataColumns
     /\ ~call.args.scatter_kwargs
     /\ ~call.args.interpolate_kwargs)
    => call.status = "ok"

\* the operations that plot on an axes
AxesOps ==
    {"plot_coverage", "scatter_statistics", "plot_distributions", "scatter_reduced",
     "dot_plot", "plot_group_abundance_changes"}

\* C22 (as stated): every axes-based plotting operation that succeeds
\* returns the axes it drew on, the caller's ax.
C22_Original ==
    (call.op \in AxesOps /\ call.status = "ok") => call.returns = "ax"

\* C23 (as stated): in scatter_statistics the string 'mapped' selects every
\* feature but the spike-ins and the other features, and the string 'all'
\* selects every feature, spike-ins and others included; neither is looked
\* up as a feature name.
C23_Original ==
    (/\ call.op = "scatter_statistics"
     /\ call.args.features.isstr
     /\ call.args.features.name \in {"mapped", "all"})
    => /\ call.status = "ok"
       /\ Len(call.drawn) = 1
       /\ Range(call.drawn[1].features) =
              IF call.args.features.name = "all"
              THEN Range(CountsIndex)
              ELSE Range(CountsIndex) \ (Range(Spikeins) \cup Range(OtherFeatures))

\* the last call was scatter_reduced on a label column with a list palette
ListCall(c) == c.op = "scatter_reduced" /\ c.kind = "categorical" /\ c.args.cmap.kind = "list"

\* the k-th entry of the list palette for the label of rank k - 1
ListColor(c, l) == NamedColor(c.args.cmap.list[LabelRank(c.values, l) + 1])

\* C24: a scatter_reduced call on a label column with a list palette that
\* returns gives the label of rank k, in the ascending order of the distinct
\* labels, the k-th list entry, whatever the order of the labels in the
\* column: in the row colours and in the recorded legend mapping; the
\* mapping gains exactly the labels of the column, so that surplus entries
\* of the list are in neither.
C24_ListPalette ==
    [][(ListCall(call') /\ call'.status = "ok") =>
          /\ \A i \in Samples : call'.c[i] = ListColor(call', call'.values[i])
          /\ DOMAIN ax'.singlet_cmap = (DOMAIN ax.singlet_cmap) \cup Range(call'.values)
          /\ \A l \in DOMAIN ax'.singlet_cmap :
                ax'.singlet_cmap[l] = IF l \in Range(call'.values)
                                      THEN ListColor(call', l)
                                      ELSE ax.singlet_cmap[l]
          /\ Len(call'.batches) = 1
          /\ call'.batches[1].c = call'.c]_vars

\* a list of four colours for two labels, the greater label first in the
\* column: the mapping holds two colours
C24_Witness ==
    /\ ListCall(call)
    /\ call.status = "ok"
    /\ ncalls = 1
    /\ Len(call.args.cmap.list) = 4
    /\ Range(call.values) = {"a", "c"}
    /\ call.values[1] = "c"
    /\ Cardinality(DOMAIN ax.singlet_cmap) = 2
    /\ ax.singlet_cmap["c"] = NamedColor("blue")

\* what holds of the driver in every state: the scripts started are the
\* first ones of the list, in its order; one runs at a time; a script was
\* started only after all the earlier ones exited with status 0; a non-zero
\* exit raised and is the last exit; every script got a copy of os.environ
\* in which SINGLET_CONFIG_FILENAME is the example configuration
DriverOrdered ==
    LET n == Len(driver.started)
        m == Len(driver.exits)
    IN  /\ n <= Len(Scripts)
        /\ \A k \in 1..n : driver.started[k].script = Scripts[k]
        /\ m = IF driver.running THEN n - 1 ELSE n
        /\ \A k \in 1..n : \A j \in 1..(k - 1) : driver.exits[j] = 0
        /\ \A k \in 1..m :
              driver.exits[k] # 0 => /\ driver.raised = "CalledProcessError"
                                     /\ k = n
                                     /\ ~driver.running
        /\ \A k \in 1..n :
              LET env == driver.started[k].env
              IN  /\ env["SINGLET_CONFIG_FILENAME"] = ConfigFilename
                  /\ DOMAIN env = (DOMAIN driver.environ) \cup {"SINGLET_CONFIG_FILENAME"}
                  /\ \A v \in (DOMAIN env) \ {"SINGLET_CONFIG_FILENAME", "PYTHONPATH"} :
                        env[v] = driver.environ[v]

\* C25: the driver starts its seven scripts in the listed order, each after
\* the previous one exited with status 0; the first non-zero exit raises and
\* nothing is started after it; every script receives
\* SINGLET_CONFIG_FILENAME = 'example_data/config_example.yml' in a copy of
\* the environment, and os.environ of the driver never changes.
C25_DriverOrder ==
    /\ []DriverOrdered
    /\ [][driver'.environ = driver.environ]_vars

\* the seven scripts ran, from an environment that already had another
\* SINGLET_CONFIG_FILENAME
C25_Witness ==
    /\ Len(driver.exits) = Len(Scripts)
    /\ driver.raised = "none"
    /\ "SINGLET_CONFIG_FILENAME" \in DOMAIN driver.environ
    /\ driver.environ["SINGLET_CONFIG_FILENAME"] # ConfigFilename

\* the third script failed
C25_WitnessFailure ==
    /\ Len(driver.exits) = 3
    /\ driver.exits[3] = 1
    /\ driver.raised = "CalledProcessError"

\* the short names and the long name of a key
ShortNames == {Aliases[i][2] : i \in 1..Len(Aliases)}

LongName(k) ==
    IF k \in ShortNames
    THEN Aliases[CHOOSE i \in 1..Len(Aliases) : Aliases[i][2] = k][1]
    ELSE k

\* the value a dict gives for a long name: the one under its short name if
\* there is one, else the one under the long name
Supplied(d, long) == {k \in DOMAIN d : LongName(k) = long}

ValueFor(d, long) ==
    LET short == CHOOSE k \in Supplied(d, long) :
                     k \in ShortNames \/ Supplied(d, long) = {k}
    IN  d[short]

\* C26: after _sanitize_plot_properties no short alias is a key, the value
\* given under a short name is under the long name (also when the long name
\* was given as well), the other keys keep their values, and sanitizing
\* again changes nothing; after _update_properties the caller's value for a
\* property, given under the short or the long name, is the value of the
\* property, and every default of a property the caller did not give is
\* present.
C26_KeywordAliases ==
    /\ call.op = "_sanitize_plot_properties" =>
          LET in  == call.args.kwargs
              out == call.kwargs
          IN  /\ (DOMAIN out) \cap ShortNames = {}
              /\ DOMAIN out = {LongName(k) : k \in DOMAIN in}
              /\ \A k \in (DOMAIN in) \cap ShortNames : out[LongName(k)] = in[k]
              /\ \A k \in (DOMAIN in) \ ShortNames :
                    (\A a \in DOMAIN in : a = k \/ LongName(a) # k) => out[k] = in[k]
              /\ SanitizePlotProperties(out) = out
    /\ call.op = "_update_properties" =>
          LET kw  == call.args.kwargs
              df  == call.args.defaults
              out == call.kwargs
          IN  /\ (DOMAIN out) \cap ShortNames = {}
              /\ DOMAIN out = {LongName(k) : k \in (DOMAIN kw) \cup (DOMAIN df)}
              /\ \A k \in DOMAIN kw : out[LongName(k)] = ValueFor(kw, LongName(k))
              /\ \A k \in DOMAIN df :
                    Supplied(kw, LongName(k)) = {} =>
                        out[LongName(k)] = ValueFor(df, LongName(k))

\* the caller gave a colour under both names, the defaults hold a colour and
\* a line width under its short name
C26_Witness ==
    /\ call.op = "_update_properties"
    /\ call.args.kwargs = [c |-> "1", color |-> "2"]
    /\ {"color", "lw"} \subseteq DOMAIN call.args.defaults
    /\ call.kwargs = [color |-> "1", linewidth |-> "3"]

\* the keyword of sns.clustermap for the rows or the columns
GridKey(rc, what) ==
    IF rc = "row"
    THEN CASE what = "linkage" -> "row_linkage" [] what = "colors" -> "row_colors"
           [] what = "cluster" -> "row_cluster"
    ELSE CASE what = "linkage" -> "col_linkage" [] what = "colors" -> "col_colors"
           [] what = "cluster" -> "col_cluster"

\* in the grid of call c the axis rc (rows or columns) has the linkage, the
\* colours and the clustering of the given axis of the dataset
AxisCarries(c, rc, cluster, linkage, colors) ==
    /\ c.grid[GridKey(rc, "colors")] = colors
    /\ linkage.given <=> cluster # ClusterBool(FALSE)
    /\ GridKey(rc, "linkage") \in DOMAIN c.grid <=> linkage.given
    /\ linkage.given => c.grid[GridKey(rc, "linkage")] = linkage
    /\ c.grid[GridKey(rc, "cluster")] =
          IF GridKey(rc, "cluster") \in DOMAIN c.args.kwargs
          THEN c.args.kwargs[GridKey(rc, "cluster")]
          ELSE linkage.given

\* C27: in a clustermap call that returns, the linkage and the annotation
\* colours of the samples go to the axis of the samples (the columns for
\* 'horizontal', the rows of the transposed data for 'vertical') and those
\* of the features to the other axis; an axis is clustered iff it has a
\* linkage (cluster_* is True or a linkage), not when cluster_* is False,
\* unless the caller passes row_cluster / col_cluster.
C27_Orientation ==
    (call.op = "clustermap" /\ call.status = "ok") =>
        LET hor == call.args.orientation = "horizontal"
        IN  /\ call.transposed = ~hor
            /\ call.linkage_samples.given => call.linkage_samples.axis = "samples"
            /\ call.linkage_features.given => call.linkage_features.axis = "features"
            /\ AxisCarries(call, IF hor THEN "col" ELSE "row", call.args.cluster_samples,
                           call.linkage_samples, call.col_samples)
            /\ AxisCarries(call, IF hor THEN "row" ELSE "col", call.args.cluster_features,
                           call.linkage_features, call.col_features)

\* a vertical call with a linkage of the samples, annotated samples, no
\* clustering of the features
C27_Witness ==
    /\ call.op = "clustermap"
    /\ call.status = "ok"
    /\ call.args.orientation = "vertical"
    /\ call.args.cluster_samples = ClusterGiven("samples")
    /\ call.args.cluster_features = ClusterBool(FALSE)
    /\ call.args.kwargs = NoKwargs
    /\ call.col_samples # <<>>
    /\ call.grid["row_linkage"] = Linkage("samples", "caller")
    /\ call.grid["row_colors"] = call.col_samples
    /\ ~call.grid["col_cluster"]

\* the colour of row i in call c: its entry of the colour array, or the
\* single colour of a call without color_by
OwnColor(c, i) == IF Len(c.c) = NumSamples THEN c.c[i] ELSE c.c[1]

\* row i is drawn by call c in exactly one batch, with its colour and size
DrawnOnce(c, i) ==
    /\ Cardinality({q \in 1..Len(c.batches) : i \in Range(c.batches[q].rows)}) = 1
    /\ \A q \in 1..Len(c.batches) :
          \A j \in 1..Len(c.batches[q].rows) :
              c.batches[q].rows[j] = i =>
                  /\ c.batches[q].c[j] = OwnColor(c, i)
                  /\ c.batches[q].s = DefaultSize

\* C28 (as stated): scatter_reduced draws every row in exactly one batch,
\* with its own colour and size, whatever color_by (None, a label column, a
\* numeric column or feature, not all of it missing), high_on_top and the
\* missing values of the colour column.
C28_Original ==
    (/\ call.op = "scatter_reduced"
     /\ call.args.color_by \in MetadataColumns \cup DataIndex \cup {"None"}
     /\ call.kind = "numeric" => Present # {})
    => /\ call.status = "ok"
       /\ \A i \in Samples : DrawnOnce(call, i)

\* the samples of group ct in the last call, and those of them whose value
\* of the item is at least the threshold
Members(ct) == {i \in Samples : ColumnOf(dataset, call.args.group_by)[i] = ct}

Expressing(item, ct) ==
    {i \in Members(ct) : FLe(Fin(call.args.threshold, 1), ItemValues(dataset, item)[i])}

\* the points of the last call for item number ig (0-based) and group ct
PointsAt(ig, ct) ==
    {q \in 1..Len(call.points) :
        /\ call.points[q].count = call.args.plot_list[ig + 1]
        /\ call.points[q].group = ct}

\* C29: in a dot_plot call that returns, the fraction of a point is the
\* proportion of the members of its group whose value is >= threshold, so
\* it is in [0,1] and the size of the dot in [min_size, min_size + 121];
\* there is one point for every item of plot_list and every group of the
\* group order that occurs in the data, and no other, at the index of the
\* item and the index of the group in the group order (x and y by layout).
C29_DotFractions ==
    DotOk =>
        /\ \A q \in 1..Len(call.points) :
              LET p == call.points[q]
              IN  /\ Members(p.group) # {}
                  /\ p.fraction = Fin(Cardinality(Expressing(p.count, p.group)),
                                      Cardinality(Members(p.group)))
                  /\ FLe(Fin(0, 1), p.fraction) /\ FLe(p.fraction, Fin(1, 1))
                  /\ FLe(Fin(call.args.min_size, 1), call.s[q])
                  /\ FLe(call.s[q], Fin(call.args.min_size + 121, 1))
                  /\ PointsAt(ListIndex(call.args.plot_list, p.count), p.group) = {q}
        /\ \A ig \in 0..(Len(call.args.plot_list) - 1) :
              \A g \in 1..Len(call.groups) :
                  Members(call.groups[g]) # {} =>
                      \E q \in PointsAt(ig, call.groups[g]) :
                          LET item == IF call.args.layout = "horizontal"
                                      THEN call.batches[1].x[q] ELSE call.batches[1].y[q]
                              grp  == IF call.args.layout = "horizontal"
                                      THEN call.batches[1].y[q] ELSE call.batches[1].x[q]
                          IN  item = ig /\ grp = g - 1

\* a vertical plot of two items, a group of the order missing from the data,
\* a group in which some but not all members reach the threshold
C29_Witness ==
    /\ DotOk
    /\ call.args.layout = "vertical"
    /\ Len(call.args.plot_list) = 2
    /\ \E g \in 1..Len(call.groups) : Members(call.groups[g]) = {}
    /\ Len(call.points) = 4
    /\ \E q \in 1..Len(call.points) :
          /\ FLt(Fin(0, 1), call.points[q].fraction)
          /\ FLt(call.points[q].fraction, Fin(1, 1))

\* C30: no plot call changes the dataset: its counts, samplesheet and
\* featuresheet, values and labels, are after the call what they were before
\* it, also for clustermap with phenotypes_cluster_features, dot_plot with
\* phenotypes in plot_list and plot_distributions with a floor.
C30_DatasetUnchanged == [][dataset' = dataset]_vars

\* after a dot_plot of a phenotype, a clustermap call has added two
\* phenotype rows to its data; the counts of the dataset have their rows
C30_Witness ==
    /\ ncalls = 2
    /\ call.op = "clustermap"
    /\ call.status = "ok"
    /\ call.data_rows = <<"g", "ph", "ct">>
    /\ ax.has_dotmap
    /\ dataset.counts_index = Range(CountsIndex)
    /\ dataset.samplesheet_columns = MetadataColumns

====
